---- MODULE Spec2Model ----
(***************************************************************************)
(* Supplier-orders retrieval API (GET handler with sync-on-miss), the      *)
(* order normaliser transformSupplierOrdersForResponse, and the store      *)
(* orders page with its fetchOrders calls.                                 *)
(***************************************************************************)
EXTENDS Integers, Sequences, FiniteSets, TLC

(***************************************************************************)
(* JavaScript values.  A string is a sequence of one-character strings, so *)
(* that parsing (parseFloat, JSON.parse) is computed and not assumed.      *)
(***************************************************************************)
Null == [t |-> "null"]
Undefined == [t |-> "undefined"]
NaN == [t |-> "NaN"]
Str(s) == [t |-> "string", s |-> s]
\* the number m * 10^(-k), kept with no trailing zero in its fraction
Num(m, k) == [t |-> "number", m |-> m, k |-> k]
Obj(o) == [t |-> "object", o |-> o]
Arr(a) == [t |-> "array", a |-> a]

RECURSIVE Normalise(_, _)
Normalise(m, k) == IF k > 0 /\ m % 10 = 0 THEN Normalise(m \div 10, k - 1) ELSE Num(m, k)

\* JavaScript ToBoolean
Truthy(v) ==
    CASE v.t = "null" -> FALSE
      [] v.t = "undefined" -> FALSE
      [] v.t = "NaN" -> FALSE
      [] v.t = "string" -> v.s # <<>>
      [] v.t = "number" -> v.m # 0
      [] OTHER -> TRUE

\* a || b
OrElse(a, b) == IF Truthy(a) THEN a ELSE b

Digits == <<"0", "1", "2", "3", "4", "5", "6", "7", "8", "9">>
IsDigit(c) == \E d \in 1..10 : Digits[d] = c
DigitVal(c) == (CHOOSE d \in 1..10 : Digits[d] = c) - 1
IsSpace(c) == c = " "

RECURSIVE SkipSpaces(_, _)
SkipSpaces(s, i) == IF i <= Len(s) /\ IsSpace(s[i]) THEN SkipSpaces(s, i + 1) ELSE i

\* the end (exclusive) of the run of digits of s that starts at i
RECURSIVE DigitsEnd(_, _)
DigitsEnd(s, i) == IF i <= Len(s) /\ IsDigit(s[i]) THEN DigitsEnd(s, i + 1) ELSE i

\* the decimal value of the digits s[i..j-1]
RECURSIVE DigitsVal(_, _, _)
DigitsVal(s, i, j) == IF i >= j THEN 0 ELSE DigitsVal(s, i, j - 1) * 10 + DigitVal(s[j - 1])

RECURSIVE Pow10(_)
Pow10(k) == IF k = 0 THEN 1 ELSE 10 * Pow10(k - 1)

\* parseFloat of a string: leading white space, an optional sign, the longest
\* prefix that is a decimal literal; NaN when there is none.
ParseFloatStr(s) ==
    LET a == SkipSpaces(s, 1)
        neg == a <= Len(s) /\ s[a] = "-"
        b == IF a <= Len(s) /\ (s[a] = "-" \/ s[a] = "+") THEN a + 1 ELSE a
        c == DigitsEnd(s, b)
        hasDot == c <= Len(s) /\ s[c] = "."
        d == IF hasDot THEN DigitsEnd(s, c + 1) ELSE c
        fracLen == IF hasDot THEN d - (c + 1) ELSE 0
        intVal == DigitsVal(s, b, c)
        fracVal == IF hasDot THEN DigitsVal(s, c + 1, d) ELSE 0
        mag == intVal * Pow10(fracLen) + fracVal
    IN  IF c = b /\ fracLen = 0 THEN NaN
        ELSE Normalise(IF neg THEN 0 - mag ELSE mag, fracLen)

\* parseFloat(v): the argument is converted to a string first
ParseFloat(v) ==
    CASE v.t = "string" -> ParseFloatStr(v.s)
      [] v.t = "number" -> v
      [] OTHER -> NaN

(***************************************************************************)
(* JSON.parse, for texts whose characters are white space, double quotes,  *)
(* braces, colons, commas, digits, "." and "-" and letters that spell no   *)
(* JSON literal: the JSON values over these are strings, numbers, objects. *)
(***************************************************************************)
Failed == [ok |-> FALSE, v |-> Null, i |-> 0]
Parsed(v, i) == [ok |-> TRUE, v |-> v, i |-> i]

\* the index of the first double quote of s at or after i, or 0
RECURSIVE QuoteAt(_, _)
QuoteAt(s, i) == IF i > Len(s) THEN 0 ELSE IF s[i] = "\"" THEN i ELSE QuoteAt(s, i + 1)

ParseString(s, i) ==
    IF i > Len(s) \/ s[i] # "\"" THEN Failed
    ELSE LET j == QuoteAt(s, i + 1)
         IN  IF j = 0 THEN Failed ELSE Parsed(Str(SubSeq(s, i + 1, j - 1)), j + 1)

\* -? (0 | [1-9][0-9]*) (. [0-9]+)?
ParseNumber(s, i) ==
    LET neg == i <= Len(s) /\ s[i] = "-"
        b == IF neg THEN i + 1 ELSE i
        c == IF b <= Len(s) /\ s[b] = "0" THEN b + 1 ELSE DigitsEnd(s, b)
        hasDot == c <= Len(s) /\ s[c] = "."
        d == IF hasDot THEN DigitsEnd(s, c + 1) ELSE c
        fracLen == IF hasDot THEN d - (c + 1) ELSE 0
        mag == DigitsVal(s, b, c) * Pow10(fracLen) + (IF hasDot THEN DigitsVal(s, c + 1, d) ELSE 0)
    IN  IF c = b \/ (hasDot /\ fracLen = 0) THEN Failed
        ELSE Parsed(Normalise(IF neg THEN 0 - mag ELSE mag, fracLen), d)

RECURSIVE ParseValue(_, _)
RECURSIVE ParseMembers(_, _, _)
\* the members of an object from position i on, o being those read so far
ParseMembers(s, i, o) ==
    LET key == ParseString(s, SkipSpaces(s, i))
        colon == SkipSpaces(s, key.i)
        val == ParseValue(s, SkipSpaces(s, colon + 1))
        after == SkipSpaces(s, val.i)
        o2 == [f \in (DOMAIN o) \cup {key.v.s} |-> IF f = key.v.s THEN val.v ELSE o[f]]
    IN  IF ~key.ok \/ colon > Len(s) \/ s[colon] # ":" THEN Failed
        ELSE IF ~val.ok \/ after > Len(s) THEN Failed
        ELSE IF s[after] = "}" THEN Parsed(Obj(o2), after + 1)
        ELSE IF s[after] = "," THEN ParseMembers(s, after + 1, o2)
        ELSE Failed

ParseValue(s, i) ==
    IF i > Len(s) THEN Failed
    ELSE IF s[i] = "\"" THEN ParseString(s, i)
    ELSE IF s[i] = "{" THEN
        LET j == SkipSpaces(s, i + 1)
        IN  IF j <= Len(s) /\ s[j] = "}" THEN Parsed(Obj(<<>>), j + 1)
            ELSE ParseMembers(s, i + 1, <<>>)
    ELSE ParseNumber(s, i)

\* JSON.parse(text): [ok |-> TRUE, v |-> the value], or ok = FALSE when it throws
JSONParse(s) ==
    LET r == ParseValue(s, SkipSpaces(s, 1))
    IN  IF r.ok /\ SkipSpaces(s, r.i) = Len(s) + 1 THEN r ELSE Failed
(***************************************************************************)
(* The normaliser.  A raw order, a raw line item and a canonical order are *)
(* functions from property names to JavaScript values; reading a property  *)
(* that is not there gives undefined.                                      *)
(***************************************************************************)
Get(o, f) == IF f \in DOMAIN o THEN o[f] ELSE Undefined

\* typeof a === 'string' ? JSON.parse(a) : a, for a truthy a; null otherwise
ParseAddress(a) ==
    IF ~Truthy(a) THEN Parsed(Null, 0)
    ELSE IF a.t = "string" THEN JSONParse(a.s)
    ELSE Parsed(a, 0)

\* a normaliser that hands the stored text on when it cannot be parsed
ParseAddressesKeepsText(order) ==
    LET s == ParseAddress(Get(order, "shipping_address"))
        b == ParseAddress(Get(order, "billing_address"))
    IN  [shippingAddress |-> IF s.ok THEN s.v ELSE Get(order, "shipping_address"),
         billingAddress |-> IF b.ok THEN b.v ELSE Get(order, "billing_address")]

\* both addresses are parsed inside one try block, shipping first: a throw
\* leaves every address not yet assigned at null
ParseAddresses(order) ==
    LET s == ParseAddress(Get(order, "shipping_address"))
        b == ParseAddress(Get(order, "billing_address"))
    IN  IF ~s.ok THEN [shippingAddress |-> Null, billingAddress |-> Null]
        ELSE IF ~b.ok THEN [shippingAddress |-> s.v, billingAddress |-> Null]
        ELSE [shippingAddress |-> s.v, billingAddress |-> b.v]

TransformItem(item) ==
    [id |-> Get(item, "shopify_line_item_id"),
     name |-> Get(item, "product_name"),
     quantity |-> Get(item, "quantity"),
     price |-> ParseFloat(OrElse(Get(item, "price"), Str(<<"0">>))),
     productId |-> Get(item, "supplier_product_id"),
     variantId |-> Get(item, "variant_id"),
     shopifyProductId |-> Get(item, "shopify_product_id"),
     sku |-> Get(item, "sku")]

\* order.supplier_order_items?.map(...) || [], the embedded relation being an
\* array, null or undefined
TransformItems(items) ==
    IF items.t = "array" THEN Arr([i \in 1..Len(items.a) |-> TransformItem(items.a[i])])
    ELSE Arr(<<>>)

TransformOrder(order) ==
    LET addr == ParseAddresses(order)
    IN  [id |-> Get(order, "shopify_order_id"),
         orderNumber |-> Get(order, "order_number"),
         customerName |-> Get(order, "customer_name"),
         customerEmail |-> Get(order, "customer_email"),
         customerPhone |-> OrElse(Get(order, "customer_phone"), Null),
         shippingAddress |-> addr.shippingAddress,
         billingAddress |-> addr.billingAddress,
         status |-> Get(order, "status"),
         financialStatus |-> Get(order, "financial_status"),
         amount |-> ParseFloat(OrElse(Get(order, "total_amount"), Str(<<"0">>))),
         currency |-> Get(order, "currency"),
         date |-> Get(order, "order_date"),
         store |-> Get(order, "store_url"),
         supplierProducts |-> TransformItems(Get(order, "supplier_order_items"))]

\* a normaliser that returns the orders last row first
transformInReverse(supplierOrders) ==
    [i \in 1..Len(supplierOrders) |->
        TransformOrder(supplierOrders[Len(supplierOrders) + 1 - i])]

transformSupplierOrdersForResponse(supplierOrders) ==
    [i \in 1..Len(supplierOrders) |-> TransformOrder(supplierOrders[i])]
(***************************************************************************)
(* The store: rows of supplier_orders, each with its supplier_order_items. *)
(* Catalogue is the rows the remote platform holds; a sync mirrors some of *)
(* them into the store.                                                    *)
(***************************************************************************)
RawItem(id, price) ==
    [id |-> id, shopify_line_item_id |-> id, shopify_product_id |-> Str(<<"8">>),
     supplier_product_id |-> Str(<<"9">>), product_name |-> Str(<<"p">>),
     quantity |-> Num(2, 0), price |-> price, variant_id |-> Null, sku |-> Null]

RawOrder(id, owner, date, amount, shipping, items) ==
    [shopify_order_id |-> id, order_number |-> id, supplier_id |-> owner,
     customer_name |-> Str(<<"n">>), customer_email |-> Null, customer_phone |-> Null,
     shipping_address |-> shipping, billing_address |-> Null,
     status |-> Str(<<"o">>), financial_status |-> Str(<<"p">>),
     total_amount |-> amount, currency |-> Str(<<"I">>), order_date |-> date,
     store_url |-> Str(<<"s">>), supplier_order_items |-> items]

Catalogue ==
    { RawOrder(Str(<<"1">>), Str(<<"a">>), Str(<<"2">>), Str(<<"1", "9", ".", "9", "9">>),
               Str(<<"{", "\"", "c", "\"", ":", "\"", "P", "\"", "}">>),
               Arr(<<RawItem(Str(<<"7">>), Num(55, 1))>>)),
      RawOrder(Str(<<"2">>), Str(<<"a">>), Str(<<"1">>), Null, Str(<<"{", "i">>), Arr(<<>>)),
      RawOrder(Str(<<"3">>), Str(<<"a">>), Str(<<"2">>), Num(5, 0), Null,
               Arr(<<RawItem(Str(<<"6">>), Null)>>)),
      RawOrder(Str(<<"4">>), Str(<<"b">>), Str(<<"3">>), Str(<<"7">>), Null, Arr(<<>>)) }

\* order_date as a point in time
DateOf(row) == DigitsVal(row.order_date.s, 1, Len(row.order_date.s) + 1)

\* the date of a returned order as a point in time
DateValue(order) == DigitsVal(order.date.s, 1, Len(order.date.s) + 1)

\* a table read oldest first
Oldest(rows) ==
    { q \in [1..Cardinality(rows) -> rows] :
        /\ \A i, j \in DOMAIN q : i # j => q[i] # q[j]
        /\ \A i, j \in DOMAIN q : i < j => DateOf(q[i]) <= DateOf(q[j]) }

\* .order('order_date', { ascending: false }): the rows of a table newest first;
\* the order of rows of one date is the store's choice
Newest(rows) ==
    { q \in [1..Cardinality(rows) -> rows] :
        /\ \A i, j \in DOMAIN q : i # j => q[i] # q[j]
        /\ \A i, j \in DOMAIN q : i < j => DateOf(q[i]) >= DateOf(q[j]) }

\* an order query without its owner filter
OrdersOfAnyOwner(q, supplierId) == q

\* .eq('supplier_id', supplierId) of a table read newest first
OrdersOf(q, supplierId) == SelectSeq(q, LAMBDA row : row.supplier_id = supplierId)

(***************************************************************************)
(* The GET handler.  Calls are handler invocations; "twin" is a second     *)
(* invocation that meets the same identity provider, store and sync        *)
(* endpoint as "call" (it takes each step together with it).               *)
(***************************************************************************)
Calls == {"call", "twin"}
MaxCalls == 2

\* searchParams.get(...): null when the parameter is absent
SupplierNames == {Null, Str(<<>>), Str(<<"a">>), Str(<<"b">>)}
SyncParams == {Null, Str(<<"t", "r", "u", "e">>), Str(<<"1">>)}
Requests == [supplierName : SupplierNames, sync : SyncParams]
\* suppliers.username values
Usernames == {Str(<<"a">>), Str(<<"b">>)}

VARIABLES
    store,          \* the rows of supplier_orders
    served,         \* how many requests have been received
    request,        \* per call: the query parameters
    pc,             \* per call: the await the handler is at
    user,           \* per call: what supabase.auth.getUser() gave
    supplierData,   \* per call: what the suppliers lookup gave
    supplierId,     \* per call: the resolved owner
    allMappings,    \* per call: what the product_shopify_mappings read gave
    supplierOrders, \* per call: the result of the order query
    freshOrders,    \* per call: the result of the re-query after a sync
    trace,          \* per call: its sync requests and order queries so far
    response,       \* per call: the responses it returned
    batch,          \* the normaliser alone: the orders it is given
    result,         \* the normaliser alone: the orders it returned
    passes,         \* the normaliser alone: how often it has been applied
    selectedStore,  \* the store orders page: the store of the layout context
    orders,         \* the store orders page: the orders state
    loading,        \* the store orders page: the loading state
    products,       \* the store orders page: the products state
    error,          \* the store orders page: the error state
    toasts,         \* the store orders page: how many error toasts were raised
    fetching,       \* the store orders page: the fetchOrders calls made so far
    filteredOrders, \* the store orders page: the filteredOrders state
    searchTerm,     \* the store orders page: the searchTerm state
    productFilter,  \* the store orders page: the productFilter state
    crashed,        \* the store orders page: an effect threw, the page is gone
    adminOrders,    \* the administrative page: the orders state
    adminStores,    \* the administrative page: the stores state
    adminProducts,  \* the administrative page: the products state
    adminLoading,   \* the administrative page: the loading state
    adminToasts,    \* the administrative page: how many error toasts were raised
    loads,          \* the administrative page: the fetchAllStoresAndOrders calls
    adminFiltered,  \* the administrative page: the filteredOrders state
    adminSearch,    \* the administrative page: the searchTerm state
    adminProduct,   \* the administrative page: the productFilter state
    storeFilter,    \* the administrative page: the storeFilter state
    adminCrashed    \* the administrative page: an effect threw, the page is gone

handlerVars == <<store, served, request, pc, user, supplierData, supplierId, allMappings,
                 supplierOrders, freshOrders, trace, response>>
normVars == <<batch, result, passes>>
pageVars == <<selectedStore, orders, products, loading, error, toasts, fetching,
              filteredOrders, searchTerm, productFilter, crashed>>
adminVars == <<adminOrders, adminStores, adminProducts, adminLoading, adminToasts, loads,
               adminFiltered, adminSearch, adminProduct, storeFilter, adminCrashed>>
vars == <<handlerVars, normVars, pageVars, adminVars>>

\* what the GET handler does not touch
otherThanHandler == <<normVars, pageVars, adminVars>>
\* what the normaliser alone, each page alone does not touch
otherThanNorm == <<handlerVars, pageVars, adminVars>>
otherThanPage == <<handlerVars, normVars, adminVars>>
otherThanAdmin == <<handlerVars, normVars, pageVars>>
\* useState("") and useState("all")
NoTerm == Str(<<>>)
All == Str(<<"a", "l", "l">>)
NormIdle == batch = <<>> /\ result = <<>> /\ passes = 0
PageIdle ==
    /\ selectedStore = Null
    /\ orders = <<>>
    /\ products = <<>>
    /\ loading = TRUE
    /\ error = Null
    /\ toasts = 0
    /\ fetching = <<>>
    /\ filteredOrders = <<>>
    /\ searchTerm = NoTerm
    /\ productFilter = All
    /\ crashed = FALSE
AdminIdle ==
    /\ adminOrders = <<>>
    /\ adminStores = <<>>
    /\ adminProducts = <<>>
    /\ adminLoading = TRUE
    /\ adminToasts = 0
    /\ loads = <<>>
    /\ adminFiltered = <<>>
    /\ adminSearch = NoTerm
    /\ adminProduct = All
    /\ storeFilter = All
    /\ adminCrashed = FALSE

Pending == [kind |-> "pending"]
ForceSync(req) == req.sync = Str(<<"t", "r", "u", "e">>)

OrdersResponse(list) == [status |-> 200, body |-> [orders |-> list]]
SyncedResponse(list) == [status |-> 200, body |-> [orders |-> list, synced |-> TRUE]]
ErrorResponse(msg, status) == [status |-> status, body |-> [error |-> msg]]

Goto(label, owner) == [pc |-> label, supplierId |-> owner, out |-> <<>>]
Reply(r, owner) == [pc |-> "done", supplierId |-> owner, out |-> <<r>>]
\* a handler whose exception escapes: no response is returned
Escaped(owner) == [pc |-> "done", supplierId |-> owner, out |-> <<>>]

\* the catch block of the handler
Caught(owner) == Reply(ErrorResponse("Failed to fetch supplier orders", 500), owner)
\* what the identity provider, the store and the sync endpoint can answer
AuthOutcomes == {[kind |-> "user"], [kind |-> "none"], [kind |-> "error"], [kind |-> "throw"]}
LookupOutcomes == {[kind |-> "found", username |-> u] : u \in Usernames}
                    \cup {[kind |-> "none"], [kind |-> "throw"]}
\* (a returned error of the mappings read is logged like its data)
MappingsOutcomes == {[kind |-> "data"], [kind |-> "throw"]}
SyncOutcomes == {[kind |-> "ok"], [kind |-> "failed"], [kind |-> "throw"]}
QueryOutcomes == {[kind |-> "data"], [kind |-> "error"], [kind |-> "throw"]}

\* OnGetUser with no fallback to the supplierName parameter
OnGetUserNoFallback(req, o) ==
    IF o.kind = "throw" THEN Caught(Undefined)
    ELSE IF o.kind # "user" THEN
        Reply(ErrorResponse("Authentication required - no user or supplier name provided", 401),
              Undefined)
    ELSE Goto("lookup", Undefined)

\* the branch after supabase.auth.getUser()
OnGetUser(req, o) ==
    IF o.kind = "throw" THEN Caught(Undefined)
    ELSE IF o.kind # "user" THEN
        IF Truthy(req.supplierName) THEN Goto("mappings", req.supplierName)
        ELSE Reply(ErrorResponse("Authentication required - no user or supplier name provided", 401),
                   Undefined)
    ELSE Goto("lookup", Undefined)

\* OnLookup that prefers the supplierName parameter to the owner record
OnLookupParamFirst(req, d) ==
    IF d.kind = "throw" THEN Caught(Undefined)
    ELSE IF Truthy(req.supplierName) THEN Goto("mappings", req.supplierName)
    ELSE IF d.kind # "found" THEN
        Reply(ErrorResponse("Supplier not found for email", 404), Undefined)
    ELSE Goto("mappings", d.username)

\* OnLookup that reports a missing owner record as 401
OnLookupUnauthorized(req, d) ==
    IF d.kind = "throw" THEN Caught(Undefined)
    ELSE IF d.kind # "found" THEN
        IF Truthy(req.supplierName) THEN Goto("mappings", req.supplierName)
        ELSE Reply(ErrorResponse("Supplier not found for email", 401), Undefined)
    ELSE Goto("mappings", d.username)

\* the branch after the suppliers lookup by the user's email
OnLookup(req, d) ==
    IF d.kind = "throw" THEN Caught(Undefined)
    ELSE IF d.kind # "found" THEN
        IF Truthy(req.supplierName) THEN Goto("mappings", req.supplierName)
        ELSE Reply(ErrorResponse("Supplier not found for email", 404), Undefined)
    ELSE Goto("mappings", d.username)

\* OnMappings that goes to the order query without the forced sync
OnMappingsSkipsSync(req, o, owner) ==
    IF o.kind = "throw" THEN Caught(owner) ELSE Goto("query", owner)

\* the product_shopify_mappings read: its result is only logged
OnMappings(req, o, owner) ==
    IF o.kind = "throw" THEN Caught(owner)
    ELSE Goto(IF ForceSync(req) THEN "forceSync" ELSE "query", owner)

\* OnForcedSync without the try block around the sync request
OnForcedSyncUncaught(o, owner) ==
    IF o.kind = "throw" THEN Caught(owner) ELSE Goto("query", owner)

\* the forced sync: every outcome is logged and the handler goes on
OnForcedSync(o, owner) == Goto("query", owner)

\* OnQuery without the !forceSync test around the automatic sync
OnQuerySyncsAgain(req, o, rows, owner) ==
    IF o.kind = "throw" THEN Caught(owner)
    ELSE IF o.kind = "error" THEN
        Reply(ErrorResponse("Failed to fetch supplier orders", 500), owner)
    ELSE IF rows = <<>> THEN Goto("autoSync", owner)
    ELSE Reply(OrdersResponse(transformSupplierOrdersForResponse(rows)), owner)

\* OnQuery that syncs automatically whatever the query returned
OnQuerySyncsOnRows(req, o, rows, owner) ==
    IF o.kind = "throw" THEN Caught(owner)
    ELSE IF o.kind = "error" THEN
        Reply(ErrorResponse("Failed to fetch supplier orders", 500), owner)
    ELSE IF ~ForceSync(req) THEN Goto("autoSync", owner)
    ELSE Reply(OrdersResponse(transformSupplierOrdersForResponse(rows)), owner)

\* OnQuery that answers an empty result at once, with no automatic sync
OnQueryNeverSyncs(req, o, rows, owner) ==
    IF o.kind = "throw" THEN Caught(owner)
    ELSE IF o.kind = "error" THEN
        Reply(ErrorResponse("Failed to fetch supplier orders", 500), owner)
    ELSE Reply(OrdersResponse(transformSupplierOrdersForResponse(rows)), owner)

\* the branches after the order query
OnQuery(req, o, rows, owner) ==
    IF o.kind = "throw" THEN Caught(owner)
    ELSE IF o.kind = "error" THEN
        Reply(ErrorResponse("Failed to fetch supplier orders", 500), owner)
    ELSE IF rows = <<>> THEN
        IF ~ForceSync(req) THEN Goto("autoSync", owner)
        ELSE Reply(OrdersResponse(<<>>), owner)
    ELSE Reply(OrdersResponse(transformSupplierOrdersForResponse(rows)), owner)

\* the branch after the automatic sync
OnAutoSync(o, owner) ==
    IF o.kind = "ok" THEN Goto("requery", owner) ELSE Reply(OrdersResponse(<<>>), owner)

\* OnRequery that forgets the synced flag
OnRequeryNotFlagged(o, rows, owner) ==
    IF o.kind = "data" /\ rows # <<>>
    THEN Reply(OrdersResponse(transformSupplierOrdersForResponse(rows)), owner)
    ELSE Reply(OrdersResponse(<<>>), owner)

\* OnRequery that flags every answer after an automatic sync
OnRequeryAlwaysFlagged(o, rows, owner) ==
    IF o.kind = "data"
    THEN Reply(SyncedResponse(transformSupplierOrdersForResponse(rows)), owner)
    ELSE Reply(SyncedResponse(<<>>), owner)

\* the branch after the re-query: only its data is read, and a throw is
\* caught by the try block around the automatic sync
OnRequery(o, rows, owner) ==
    IF o.kind = "data" /\ rows # <<>>
    THEN Reply(SyncedResponse(transformSupplierOrdersForResponse(rows)), owner)
    ELSE Reply(OrdersResponse(<<>>), owner)

At(label) == {c \in Calls : pc[c] = label}
Active == {c \in Calls : pc[c] # "idle"}
\* f with the value V[c] for every call c that is at label
Record(f, label, V) == [c \in Calls |-> IF pc[c] = label THEN V[c] ELSE f[c]]
\* the calls at label take the branch D[c]
Advance(label, D) ==
    /\ pc' = Record(pc, label, [c \in Calls |-> D[c].pc])
    /\ supplierId' = Record(supplierId, label, [c \in Calls |-> D[c].supplierId])
    /\ response' = Record(response, label, [c \in Calls |-> response[c] \o D[c].out])

SyncEvent(o) == [op |-> "sync", outcome |-> o.kind]
QueryEvent(o, owner) == [op |-> "query", outcome |-> o.kind, owner |-> owner]
\* { data, error } of an order query
QueryResult(o, q, owner) ==
    IF o.kind = "data" THEN [kind |-> "data", rows |-> OrdersOf(q, owner)] ELSE o

GetUser ==
    /\ At("getUser") # {}
    /\ \E o \in AuthOutcomes :
        /\ Advance("getUser", [c \in Calls |-> OnGetUser(request[c], o)])
        /\ user' = Record(user, "getUser", [c \in Calls |-> o])
    /\ UNCHANGED otherThanHandler
    /\ UNCHANGED <<store, served, request, supplierData, allMappings,
                   supplierOrders, freshOrders, trace>>

Lookup ==
    /\ At("lookup") # {}
    /\ \E d \in LookupOutcomes :
        /\ Advance("lookup", [c \in Calls |-> OnLookup(request[c], d)])
        /\ supplierData' = Record(supplierData, "lookup", [c \in Calls |-> d])
    /\ UNCHANGED otherThanHandler
    /\ UNCHANGED <<store, served, request, user, allMappings,
                   supplierOrders, freshOrders, trace>>

Mappings ==
    /\ At("mappings") # {}
    /\ \E o \in MappingsOutcomes :
        /\ Advance("mappings", [c \in Calls |-> OnMappings(request[c], o, supplierId[c])])
        /\ allMappings' = Record(allMappings, "mappings", [c \in Calls |-> o])
    /\ UNCHANGED otherThanHandler
    /\ UNCHANGED <<store, served, request, user, supplierData,
                   supplierOrders, freshOrders, trace>>

\* POST /api/sync-orders before the query; the sync mirrors remote orders
ForcedSync ==
    /\ At("forceSync") # {}
    /\ \E o \in SyncOutcomes, s \in SUBSET Catalogue :
        /\ store \subseteq s
        /\ store' = s
        /\ Advance("forceSync", [c \in Calls |-> OnForcedSync(o, supplierId[c])])
        /\ trace' = Record(trace, "forceSync",
                           [c \in Calls |-> Append(trace[c], SyncEvent(o))])
    /\ UNCHANGED otherThanHandler
    /\ UNCHANGED <<served, request, user, supplierData, allMappings,
                   supplierOrders, freshOrders>>

Query ==
    /\ At("query") # {}
    /\ \E o \in QueryOutcomes, q \in Newest(store) :
        /\ Advance("query", [c \in Calls |->
               OnQuery(request[c], o, OrdersOf(q, supplierId[c]), supplierId[c])])
        /\ supplierOrders' = Record(supplierOrders, "query",
               [c \in Calls |-> QueryResult(o, q, supplierId[c])])
        /\ trace' = Record(trace, "query",
               [c \in Calls |-> Append(trace[c], QueryEvent(o, supplierId[c]))])
    /\ UNCHANGED otherThanHandler
    /\ UNCHANGED <<store, served, request, user, supplierData, allMappings, freshOrders>>

\* POST /api/sync-orders after an empty query
AutoSync ==
    /\ At("autoSync") # {}
    /\ \E o \in SyncOutcomes, s \in SUBSET Catalogue :
        /\ store \subseteq s
        /\ store' = s
        /\ Advance("autoSync", [c \in Calls |-> OnAutoSync(o, supplierId[c])])
        /\ trace' = Record(trace, "autoSync",
                           [c \in Calls |-> Append(trace[c], SyncEvent(o))])
    /\ UNCHANGED otherThanHandler
    /\ UNCHANGED <<served, request, user, supplierData, allMappings,
                   supplierOrders, freshOrders>>

Requery ==
    /\ At("requery") # {}
    /\ \E o \in QueryOutcomes, q \in Newest(store) :
        /\ Advance("requery", [c \in Calls |->
               OnRequery(o, OrdersOf(q, supplierId[c]), supplierId[c])])
        /\ freshOrders' = Record(freshOrders, "requery",
               [c \in Calls |-> QueryResult(o, q, supplierId[c])])
        /\ trace' = Record(trace, "requery",
               [c \in Calls |-> Append(trace[c], QueryEvent(o, supplierId[c]))])
    /\ UNCHANGED otherThanHandler
    /\ UNCHANGED <<store, served, request, user, supplierData, allMappings, supplierOrders>>

\* a request arrives: GET(request) starts with fresh locals
Fresh(f, v) == [c \in Calls |-> IF c \in Active THEN v ELSE f[c]]
TwinOf(r, n) == [r EXCEPT !.supplierName = n]
Arrive(req, u, sd, sid, am, so, fo, tr, resp, r, n) ==
    /\ req = [c \in Calls |-> IF c = "twin" THEN TwinOf(r, n) ELSE r]
    /\ u = [c \in Calls |-> Pending]
    /\ sd = [c \in Calls |-> Pending]
    /\ sid = [c \in Calls |-> Undefined]
    /\ am = [c \in Calls |-> Pending]
    /\ so = [c \in Calls |-> Pending]
    /\ fo = [c \in Calls |-> Pending]
    /\ tr = [c \in Calls |-> <<>>]
    /\ resp = [c \in Calls |-> <<>>]

NewCall ==
    /\ served < MaxCalls
    /\ \A c \in Active : pc[c] = "done"
    /\ served' = served + 1
    /\ \E r \in Requests, n \in SupplierNames :
        /\ n = Null \/ "twin" \in Active
        /\ Arrive(request', user', supplierData', supplierId', allMappings',
                  supplierOrders', freshOrders', trace', response', r, n)
    /\ pc' = Fresh(pc, "getUser")
    /\ UNCHANGED otherThanHandler
    /\ UNCHANGED store

Init ==
    /\ NormIdle
    /\ PageIdle
    /\ AdminIdle
    /\ store \in SUBSET Catalogue
    /\ served = 1
    /\ pc = [c \in Calls |-> IF c = "twin" THEN "idle" ELSE "getUser"]
    /\ \E r \in Requests :
        Arrive(request, user, supplierData, supplierId, allMappings,
               supplierOrders, freshOrders, trace, response, r, Null)

\* the twin differs from the call in the supplierName parameter only
InitTwin ==
    /\ NormIdle
    /\ PageIdle
    /\ AdminIdle
    /\ store \in SUBSET Catalogue
    /\ served = 1
    /\ pc = [c \in Calls |-> "getUser"]
    /\ \E r \in Requests, n \in SupplierNames :
        Arrive(request, user, supplierData, supplierId, allMappings,
               supplierOrders, freshOrders, trace, response, r, n)

Next ==
    \/ GetUser
    \/ Lookup
    \/ Mappings
    \/ ForcedSync
    \/ Query
    \/ AutoSync
    \/ Requery
    \/ NewCall

Spec == Init /\ [][Next]_vars
SpecTwin == InitTwin /\ [][Next]_vars

\* no request has arrived
HandlerIdle ==
    /\ store = {}
    /\ served = 0
    /\ pc = [c \in Calls |-> "idle"]
    /\ Arrive(request, user, supplierData, supplierId, allMappings,
              supplierOrders, freshOrders, trace, response,
              [supplierName |-> Null, sync |-> Null], Null)

(***************************************************************************)
(* transformSupplierOrdersForResponse alone, on rows the order query can   *)
(* return: each address column is null, valid JSON text, text that is not  *)
(* JSON, or an object already; amounts and prices are null, numeric text,  *)
(* text that is no number, or numbers; the embedded items are null, empty  *)
(* or present, with or without quantity and price.                         *)
(***************************************************************************)
MaxBatch == 2
MaxPasses == 2

AddressColumns ==
    { Null,
      Str(<<"{", "\"", "c", "\"", ":", "\"", "P", "\"", "}">>),
      Str(<<"{", "i">>),
      Obj([c |-> Str(<<"Q">>)]) }

\* the columns of a row other than its key and its addresses
RowProfiles ==
    { [customer_name |-> Str(<<"n">>), customer_email |-> Str(<<"e">>),
       total_amount |-> Str(<<"1", "9", ".", "9", "9">>),
       items |-> Arr(<<[price |-> Num(55, 1), quantity |-> Num(2, 0)],
                       [price |-> Null, quantity |-> Null]>>)],
      [customer_name |-> Null, customer_email |-> Null,
       total_amount |-> Null, items |-> Null],
      [customer_name |-> Str(<<>>), customer_email |-> Str(<<>>),
       total_amount |-> Str(<<"a", "b">>),
       items |-> Arr(<<[price |-> Str(<<"x">>), quantity |-> Num(1, 0)]>>)] }

PositionDigit(i) == Str(<<Digits[i + 1]>>)

\* the items of the row at position i, keyed by the row and their place in it
ItemsAt(i, items) ==
    IF items.t # "array" THEN items
    ELSE Arr([j \in 1..Len(items.a) |->
                [RawItem(Str(<<Digits[i + 1], Digits[j + 1]>>), items.a[j].price)
                    EXCEPT !.quantity = items.a[j].quantity]])

\* the row at position i of a query result
RowAt(i, shipping, billing, profile) ==
    [RawOrder(PositionDigit(i), Str(<<"a">>), Str(<<"1">>), profile.total_amount,
              shipping, ItemsAt(i, profile.items))
        EXCEPT !.billing_address = billing,
               !.customer_name = profile.customer_name,
               !.customer_email = profile.customer_email]

\* what fills the rows of a query result, position by position
Fillings(n) == [1..n -> AddressColumns \X AddressColumns \X RowProfiles]
BatchOf(c) == [i \in DOMAIN c |-> RowAt(i, c[i][1], c[i][2], c[i][3])]

\* transformSupplierOrdersForResponse(supplierOrders)
Transform ==
    /\ passes = 0
    /\ result' = transformSupplierOrdersForResponse(batch)
    /\ passes' = 1
    /\ UNCHANGED <<batch, otherThanNorm>>

\* the function applied to what it returned
TransformAgain ==
    /\ passes > 0
    /\ passes < MaxPasses
    /\ batch' = result
    /\ result' = transformSupplierOrdersForResponse(result)
    /\ passes' = passes + 1
    /\ UNCHANGED otherThanNorm

InitNorm ==
    /\ HandlerIdle
    /\ PageIdle
    /\ AdminIdle
    /\ \E n \in 0..MaxBatch : \E c \in Fillings(n) : batch = BatchOf(c)
    /\ result = <<>>
    /\ passes = 0

NextNorm ==
    \/ Transform
    \/ TransformAgain

SpecNorm == InitNorm /\ [][NextNorm]_vars

(***************************************************************************)
(* The store orders page: the state of OrdersPage and its fetchOrders      *)
(* calls. A call is started by the effect on selectedStore and by the      *)
(* Refresh button, and runs from await to await; several can be in flight. *)
(***************************************************************************)
MaxFetches == 2
\* what is typed into the search box
SearchTerms == {NoTerm, Str(<<"N">>), Str(<<"0">>)}

\* the placeholders of fetchOrders
Guest == Str(<<"G", "u", "e", "s", "t">>)
NoEmail == Str(<<"N", "o", " ", "e", "m", "a", "i", "l">>)

Stores == {Str(<<"x">>), Str(<<"y">>)}
Endpoints == <<"unified", "graphql", "rest">>

\* the order of store s in the shape each endpoint answers with
\* an order with every text filled in, its number not part of its name
SecondOrder(s) ==
    [id |-> s, orderNumber |-> Num(1008, 0), name |-> Str(<<"#", "8">>),
     customerName |-> Str(<<"m">>), customerEmail |-> Str(<<"e">>),
     status |-> Str(<<"o">>), financialStatus |-> Str(<<"p">>),
     amount |-> Num(5, 0), currency |-> Str(<<"U">>), date |-> Str(<<"1">>),
     lineItems |-> Arr(<<[name |-> Str(<<"Q">>)]>>)]

StoreOrder(endpoint, s) ==
    IF endpoint = "unified"
    THEN [id |-> s, orderNumber |-> Num(7, 0), name |-> Str(<<"#", "7">>),
          customerName |-> Str(<<"n">>), customerEmail |-> Str(<<"e">>),
          status |-> Str(<<"o">>), financialStatus |-> Str(<<"p">>),
          amount |-> Num(1999, 2), currency |-> Str(<<"U">>), date |-> Str(<<"2">>),
          lineItems |-> Arr(<<[name |-> Str(<<"q">>)], [name |-> Str(<<"p">>)],
                              [name |-> Str(<<"q">>)]>>)]
    ELSE IF endpoint = "graphql" /\ s = Str(<<"y">>)
    THEN SecondOrder(s)
    ELSE IF endpoint = "graphql"
    THEN [id |-> s, name |-> Str(<<"#", "7">>), customerName |-> Null,
          customerEmail |-> Null, amount |-> Num(0, 0), date |-> Str(<<"2">>),
          lineItems |-> Arr(<<[name |-> Null]>>)]
    ELSE [id |-> s, order_number |-> Num(7, 0), name |-> Str(<<"#", "7">>),
          financial_status |-> Str(<<"p">>), created_at |-> Str(<<"2">>)]

\* the body an endpoint answers with for store s
Payload(endpoint, s) ==
    IF endpoint = "rest" /\ s = Str(<<"y">>) THEN [success |-> TRUE]
    ELSE IF endpoint = "unified"
    THEN [orders |-> Arr(<<StoreOrder(endpoint, s), SecondOrder(s)>>)]
    ELSE [orders |-> Arr(<<StoreOrder(endpoint, s)>>)]

AllFailed == Str(<<"F", "a", "i", "l", "e", "d", " ", "t", "o", " ", "f", "e", "t", "c", "h", " ", "o", "r", "d", "e", "r", "s", " ", "f", "r", "o", "m", " ", "a", "l", "l", " ", "A", "P", "I", "s">>)
NoStore == Str(<<"N", "o", " ", "s", "t", "o", "r", "e", " ", "s", "e", "l", "e", "c", "t", "e", "d">>)
\* the body of a failed answer, and the message of a thrown Error
ErrorBodies == {[error |-> Str(<<"d">>)], [success |-> FALSE]}
Thrown == Str(<<"t">>)

\* the map of fetchOrders over data.orders
NormalizeOrder(order) ==
    [id |-> Get(order, "id"),
     orderNumber |-> OrElse(OrElse(Get(order, "orderNumber"), Get(order, "order_number")),
                            Get(order, "name")),
     name |-> Get(order, "name"),
     customerName |-> OrElse(Get(order, "customerName"), Guest),
     customerEmail |-> OrElse(Get(order, "customerEmail"), NoEmail),
     customerPhone |-> OrElse(Get(order, "customerPhone"), Null),
     shippingAddress |-> OrElse(Get(order, "shippingAddress"), Null),
     billingAddress |-> OrElse(Get(order, "billingAddress"), Null),
     status |-> OrElse(Get(order, "status"), Str(<<"p", "e", "n", "d", "i", "n", "g">>)),
     financialStatus |-> OrElse(OrElse(Get(order, "financialStatus"),
                                       Get(order, "financial_status")),
                                Str(<<"p", "e", "n", "d", "i", "n", "g">>)),
     amount |-> OrElse(Get(order, "amount"), Num(0, 0)),
     currency |-> OrElse(Get(order, "currency"), Str(<<"I", "N", "R">>)),
     date |-> OrElse(Get(order, "date"), Get(order, "created_at")),
     lineItems |-> OrElse(Get(order, "lineItems"), Arr(<<>>))]

\* (data.orders || []).map(...)
NormalizeOrders(data) ==
    LET list == OrElse(Get(data, "orders"), Arr(<<>>)).a
    IN  [i \in DOMAIN list |-> NormalizeOrder(list[i])]

\* the names the Set of fetchOrders collects
ProductNames(list) ==
    LET names(order) == { order.lineItems.a[j].name : j \in DOMAIN order.lineItems.a }
    IN  { n \in UNION { names(list[i]) : i \in DOMAIN list } : Truthy(n) }

\* UTF-16 code unit order of the characters of product names
CodeUnits == <<"#", "0", "1", "2", "7", "Q", "p", "q">>
Rank(ch) == CHOOSE i \in DOMAIN CodeUnits : CodeUnits[i] = ch
RECURSIVE Before(_, _)
\* a < b as Array.prototype.sort compares strings
Before(a, b) ==
    IF b = <<>> THEN FALSE
    ELSE IF a = <<>> THEN TRUE
    ELSE IF Head(a) # Head(b) THEN Rank(Head(a)) < Rank(Head(b))
    ELSE Before(Tail(a), Tail(b))

RECURSIVE Sorted(_)
\* Array.from(names).sort()
Sorted(names) ==
    IF names = {} THEN <<>>
    ELSE LET first == CHOOSE n \in names : \A m \in names \ {n} : Before(n.s, m.s)
         IN  <<first>> \o Sorted(names \ {first})

(***************************************************************************)
(* filterOrders of both pages. A test on an order gives "yes", "no" or      *)
(* "throw" (a method called on a value that does not have it).             *)
(***************************************************************************)
Uppers == <<"A", "B", "C", "D", "E", "F", "G", "H", "I", "J", "K", "L", "M",
            "N", "O", "P", "Q", "R", "S", "T", "U", "V", "W", "X", "Y", "Z">>
Lowers == <<"a", "b", "c", "d", "e", "f", "g", "h", "i", "j", "k", "l", "m",
            "n", "o", "p", "q", "r", "s", "t", "u", "v", "w", "x", "y", "z">>
\* String.prototype.toLowerCase
LowerOf ==
    [c \in {Uppers[l] : l \in DOMAIN Uppers} |->
        Lowers[CHOOSE l \in DOMAIN Uppers : Uppers[l] = c]]
toLowerCase(s) == [i \in DOMAIN s |-> IF s[i] \in DOMAIN LowerOf THEN LowerOf[s[i]] ELSE s[i]]
\* String.prototype.includes
includes(s, part) ==
    \E i \in 0..(Len(s) - Len(part)) : SubSeq(s, i + 1, i + Len(part)) = part

RECURSIVE DigitsOf(_)
\* the decimal digits of a natural number
DigitsOf(n) ==
    IF n < 10 THEN <<Digits[n + 1]>>
    ELSE Append(DigitsOf(n \div 10), Digits[(n % 10) + 1])
RECURSIVE FractionOf(_, _)
\* the k digits of the fraction m * 10^(-k)
FractionOf(m, k) ==
    IF k = 0 THEN <<>> ELSE Append(FractionOf(m \div 10, k - 1), Digits[(m % 10) + 1])
\* Number.prototype.toString
NumberToString(v) ==
    LET size == IF v.m < 0 THEN 0 - v.m ELSE v.m
    IN  (IF v.m < 0 THEN <<"-">> ELSE <<>>)
        \o DigitsOf(size \div Pow10(v.k))
        \o (IF v.k > 0 THEN <<".">> \o FractionOf(size % Pow10(v.k), v.k) ELSE <<>>)

YesNo(b) == IF b THEN "yes" ELSE "no"
\* v.toLowerCase().includes(term.toLowerCase())
LowerIncludes(v, term) ==
    IF v.t # "string" THEN "throw"
    ELSE YesNo(includes(toLowerCase(v.s), toLowerCase(term.s)))
\* v.toString().includes(term), for the values an order number takes
TextIncludes(v, term) ==
    CASE v.t = "string" -> YesNo(includes(v.s, term.s))
      [] v.t = "number" -> YesNo(includes(NumberToString(v), term.s))
      [] v.t = "NaN" -> YesNo(includes(<<"N", "a", "N">>, term.s))
      [] v.t \in {"null", "undefined"} -> "throw"

\* a || b || c || d, each operand evaluated only when those before are false
MatchesSearch(order, term) ==
    LET name == LowerIncludes(Get(order, "name"), term)
        customerName == LowerIncludes(Get(order, "customerName"), term)
        customerEmail == LowerIncludes(Get(order, "customerEmail"), term)
    IN  IF name # "no" THEN name
        ELSE IF customerName # "no" THEN customerName
        ELSE IF customerEmail # "no" THEN customerEmail
        ELSE TextIncludes(Get(order, "orderNumber"), term)

RECURSIVE SomeItem(_, _)
\* items.some(item => item.name?.toLowerCase().includes(wanted.toLowerCase()))
SomeItem(items, wanted) ==
    IF items = <<>> THEN "no"
    ELSE LET name == Get(Head(items), "name")
             test == IF name.t \in {"null", "undefined"} THEN "no"
                     ELSE LowerIncludes(name, wanted)
         IN  IF test = "no" THEN SomeItem(Tail(items), wanted) ELSE test
\* order.lineItems?.some(...)
MatchesProduct(order, wanted) ==
    LET items == Get(order, "lineItems")
    IN  IF items.t \in {"null", "undefined"} THEN "no"
        ELSE IF items.t = "array" THEN SomeItem(items.a, wanted)
        ELSE "throw"
\* order.storeName === storeFilter
MatchesStore(order, wanted) == YesNo(Get(order, "storeName") = wanted)

RECURSIVE Kept(_, _)
\* the elements of list whose test gave "yes"
Kept(list, tests) ==
    IF list = <<>> THEN <<>>
    ELSE (IF Head(tests) = "yes" THEN <<Head(list)>> ELSE <<>>)
         \o Kept(Tail(list), Tail(tests))
\* filtered.filter(test): it throws when the test of an element throws
FilterBy(F, tests) ==
    IF \E i \in DOMAIN tests : tests[i] = "throw"
    THEN [threw |-> TRUE, list |-> <<>>]
    ELSE [threw |-> FALSE, list |-> Kept(F.list, tests)]
BySearch(F, term) ==
    IF F.threw \/ ~Truthy(term) THEN F
    ELSE FilterBy(F, [i \in DOMAIN F.list |-> MatchesSearch(F.list[i], term)])
ByProduct(F, wanted) ==
    IF F.threw \/ wanted = All THEN F
    ELSE FilterBy(F, [i \in DOMAIN F.list |-> MatchesProduct(F.list[i], wanted)])
ByStore(F, wanted) ==
    IF F.threw \/ wanted = All THEN F
    ELSE FilterBy(F, [i \in DOMAIN F.list |-> MatchesStore(F.list[i], wanted)])

\* filterOrders of the store orders page, up to setFilteredOrders
filterOrders(list, term, wanted) ==
    ByProduct(BySearch([threw |-> FALSE, list |-> list], term), wanted)

\* a filter that leaves the store filter out
adminFilterOrdersAnyStore(list, term, wanted, shop) ==
    ByProduct(BySearch([threw |-> FALSE, list |-> list], term), wanted)

\* filterOrders of the administrative page, up to setFilteredOrders
adminFilterOrders(list, term, wanted, shop) ==
    ByStore(ByProduct(BySearch([threw |-> FALSE, list |-> list], term), wanted), shop)

InFlight == {i \in DOMAIN fetching : fetching[i].pc \notin {"done", "failed"}}

\* a call that has returned: its locals are gone, how it ended is kept
Settled(F) == [F EXCEPT !.asked = <<>>, !.answers = <<>>]

\* the calls made so far, as a new call finds them
Earlier ==
    [i \in DOMAIN fetching |-> IF i \in InFlight THEN fetching[i] ELSE Settled(fetching[i])]

\* fetchOrders() up to its first await
StartFetch(s) ==
    /\ Len(fetching) < MaxFetches
    /\ IF Truthy(s)
       THEN /\ fetching' = Append(Earlier, [store |-> s, pc |-> "fetch",
                                            asked |-> <<"unified">>, answers |-> <<>>])
            /\ loading' = TRUE
            /\ error' = Null
            /\ UNCHANGED toasts
       ELSE /\ fetching' = Append(Earlier, [store |-> s, pc |-> "failed",
                                            asked |-> <<>>, answers |-> <<>>])
            /\ loading' = FALSE
            /\ error' = NoStore
            /\ toasts' = toasts + 1
    /\ UNCHANGED <<orders, products, filteredOrders, crashed>>

\* call i goes on to label after answer, with one more endpoint asked when
\* there is one
Continue(i, label, asked, answer) ==
    /\ fetching' = [fetching EXCEPT ![i].pc = label, ![i].asked = asked,
                                    ![i].answers = Append(@, answer)]
    /\ UNCHANGED <<orders, products, loading, error, toasts, filteredOrders, crashed>>

\* call i ends after answer in its catch block, then finally
Fail(i, message, answer) ==
    /\ error' = message
    /\ toasts' = toasts + 1
    /\ loading' = FALSE
    /\ fetching' = [fetching EXCEPT ![i].pc = "failed", ![i].answers = Append(@, answer)]
    /\ UNCHANGED <<orders, products, filteredOrders, crashed>>

\* the effect on orders, searchTerm and productFilter: filterOrders()
FilterEffect(list, term, wanted) ==
    \E F \in {filterOrders(list, term, wanted)} :
        /\ crashed' = F.threw
        /\ filteredOrders' = IF F.threw THEN filteredOrders ELSE F.list

\* call i has its data: setOrders, setProducts, then finally; the new orders
\* run the filter effect
Succeed(i, data) ==
    /\ orders' = NormalizeOrders(data)
    /\ FilterEffect(NormalizeOrders(data), searchTerm, productFilter)
    /\ products' = Sorted(ProductNames(NormalizeOrders(data)))
    /\ loading' = FALSE
    /\ fetching' = [fetching EXCEPT ![i].pc = "done", ![i].answers = Append(@, "body")]
    /\ UNCHANGED <<error, toasts>>

\* the page is shown: a store is selected (with none the effect at lines
\* 78-84 leaves for /connect-store) and no effect has thrown
Shown == Truthy(selectedStore) /\ ~crashed

\* the layout context selects another store and the effect calls fetchOrders
SelectStore ==
    /\ Shown
    /\ \E s \in Stores \ {selectedStore} :
        /\ selectedStore' = s
        /\ StartFetch(s)
    /\ UNCHANGED <<searchTerm, productFilter, otherThanPage>>

\* the Refresh button, disabled while loading
Refresh ==
    /\ Shown
    /\ ~loading
    /\ StartFetch(selectedStore)
    /\ UNCHANGED <<selectedStore, searchTerm, productFilter, otherThanPage>>

\* a fetch that goes on to the next endpoint when the request throws
RespondsGoesOnAfterThrow ==
    /\ Shown
    /\ \E i \in InFlight :
        /\ fetching[i].pc = "fetch"
        /\ \E answer \in {"ok", "failed", "throw"} :
            LET asked == fetching[i].asked
            IN  IF answer = "ok" THEN Continue(i, "json", asked, answer)
                ELSE IF Len(asked) < Len(Endpoints)
                THEN Continue(i, "fetch", Append(asked, Endpoints[Len(asked) + 1]), answer)
                ELSE IF answer = "throw" THEN Fail(i, Thrown, answer)
                ELSE Continue(i, "errorJson", asked, answer)
    /\ UNCHANGED <<selectedStore, searchTerm, productFilter, otherThanPage>>

\* await fetch(...) of call i returns a response or throws
Responds ==
    /\ Shown
    /\ \E i \in InFlight :
        /\ fetching[i].pc = "fetch"
        /\ \E answer \in {"ok", "failed", "throw"} :
            LET asked == fetching[i].asked
            IN  IF answer = "ok" THEN Continue(i, "json", asked, answer)
                ELSE IF answer = "throw" THEN Fail(i, Thrown, answer)
                ELSE IF Len(asked) < Len(Endpoints)
                THEN Continue(i, "fetch", Append(asked, Endpoints[Len(asked) + 1]), answer)
                ELSE Continue(i, "errorJson", asked, answer)
    /\ UNCHANGED <<selectedStore, searchTerm, productFilter, otherThanPage>>

\* await response.json() of an ok response of call i
Decodes ==
    /\ Shown
    /\ \E i \in InFlight :
        /\ fetching[i].pc = "json"
        /\ \/ Succeed(i, Payload(fetching[i].asked[Len(fetching[i].asked)], fetching[i].store))
           \/ Fail(i, Thrown, "throw")
    /\ UNCHANGED <<selectedStore, searchTerm, productFilter, otherThanPage>>

\* await response.json() of the last failed response of call i
DecodesError ==
    /\ Shown
    /\ \E i \in InFlight :
        /\ fetching[i].pc = "errorJson"
        /\ \/ \E errorData \in ErrorBodies :
                Fail(i, OrElse(Get(errorData, "error"), AllFailed), "body")
           \/ Fail(i, Thrown, "throw")
    /\ UNCHANGED <<selectedStore, searchTerm, productFilter, otherThanPage>>

\* the search box
SetSearchTerm ==
    /\ Shown
    /\ \E term \in SearchTerms \ {searchTerm} :
        /\ searchTerm' = term
        /\ FilterEffect(orders, term, productFilter)
    /\ UNCHANGED <<selectedStore, orders, products, loading, error, toasts, fetching,
                   productFilter, otherThanPage>>

\* the product selector, whose items are "all" and the products
SetProductFilter ==
    /\ Shown
    /\ \E wanted \in ({All} \cup {products[i] : i \in DOMAIN products}) \ {productFilter} :
        /\ productFilter' = wanted
        /\ FilterEffect(orders, searchTerm, wanted)
    /\ UNCHANGED <<selectedStore, orders, products, loading, error, toasts, fetching,
                   searchTerm, otherThanPage>>

\* the Clear Filters button
clearFilters ==
    /\ Shown
    /\ searchTerm' = NoTerm
    /\ productFilter' = All
    /\ FilterEffect(orders, NoTerm, All)
    /\ UNCHANGED <<selectedStore, orders, products, loading, error, toasts, fetching,
                   otherThanPage>>

\* the page mounts with a store selected: the effect calls fetchOrders
InitPage ==
    /\ HandlerIdle
    /\ NormIdle
    /\ AdminIdle
    /\ selectedStore \in Stores
    /\ orders = <<>>
    /\ products = <<>>
    /\ loading = TRUE
    /\ error = Null
    /\ toasts = 0
    /\ fetching = <<[store |-> selectedStore, pc |-> "fetch",
                     asked |-> <<"unified">>, answers |-> <<>>]>>
    /\ filteredOrders = <<>>
    /\ searchTerm = NoTerm
    /\ productFilter = All
    /\ crashed = FALSE

NextPage ==
    \/ SelectStore
    \/ Refresh
    \/ Responds
    \/ Decodes
    \/ DecodesError
    \/ SetSearchTerm
    \/ SetProductFilter
    \/ clearFilters

SpecPage == InitPage /\ [][NextPage]_vars

(***************************************************************************)
(* The administrative page: the state of AdminDashboard and its            *)
(* fetchAllStoresAndOrders calls. A call is started by the effect on       *)
(* isAuthenticated and by the Refresh button, which like the rest of the   *)
(* page is rendered only while loading is false.                           *)
(***************************************************************************)
MaxLoads == 2

\* what TokenManager.getAllStores() resolves with: the shops connected
StoreLists ==
    { <<>>, <<Str(<<"x">>)>>, <<Str(<<"x">>), Str(<<"y">>)>>,
      <<Str(<<"y">>), Str(<<"x">>)>> }

\* orderAmount * 0.15 for the amounts the endpoints answer with: a number,
\* null or none; the product is kept as a decimal
calculateMargin(orderAmount) ==
    IF orderAmount.t = "number" THEN Normalise(orderAmount.m * 15, orderAmount.k + 2)
    ELSE IF orderAmount = Null THEN Num(0, 0)
    ELSE NaN

\* { ...order, customerPhone, shippingAddress, billingAddress, storeName, margin }
AdminOrder(order, shop) ==
    [k \in DOMAIN order \cup {"customerPhone", "shippingAddress", "billingAddress",
                              "storeName", "margin"} |->
        IF k \in {"customerPhone", "shippingAddress", "billingAddress"}
        THEN OrElse(Get(order, k), Null)
        ELSE IF k = "storeName" THEN shop
        ELSE IF k = "margin" THEN calculateMargin(Get(order, "amount"))
        ELSE order[k]]

\* data.orders?.map(...) || []
StoreOrders(data, shop) ==
    LET list == Get(data, "orders")
    IN  IF list.t = "array"
        THEN [i \in DOMAIN list.a |-> AdminOrder(list.a[i], shop)]
        ELSE <<>>

\* new Date(order.date).getTime() is a number
ValidDate(order) ==
    LET date == Get(order, "date")
    IN  date.t = "string" /\ date.s # <<>> /\ \A i \in DOMAIN date.s : IsDigit(date.s[i])

Without(list, i) == [j \in 1..(Len(list) - 1) |-> IF j < i THEN list[j] ELSE list[j + 1]]

RECURSIVE StableNewest(_)
\* a stable sort, newest first, of orders that all have a date
StableNewest(list) ==
    IF list = <<>> THEN <<>>
    ELSE LET first == CHOOSE i \in DOMAIN list :
                        /\ \A j \in DOMAIN list : DateValue(list[i]) >= DateValue(list[j])
                        /\ \A j \in 1..(i - 1) : DateValue(list[j]) < DateValue(list[i])
         IN  <<list[first]>> \o StableNewest(Without(list, first))

Reorderings(list) ==
    { [i \in DOMAIN list |-> list[f[i]]] :
        f \in { g \in [DOMAIN list -> DOMAIN list] :
                  \A i, j \in DOMAIN list : i # j => g[i] # g[j] } }

\* allOrders.sort((a, b) => new Date(b.date).getTime() - new Date(a.date).getTime()):
\* with an order whose date gives NaN the comparator is inconsistent and
\* the order of the result is the implementation's choice
SortNewest(list) ==
    IF \A i \in DOMAIN list : ValidDate(list[i]) THEN {StableNewest(list)}
    ELSE Reorderings(list)

\* the names the Set of fetchAllStoresAndOrders collects
AdminProductNames(list) ==
    LET items(order) == Get(order, "lineItems")
        names(order) == IF items(order).t = "array"
                        THEN { Get(items(order).a[j], "name") : j \in DOMAIN items(order).a }
                        ELSE {}
    IN  { n \in UNION { names(list[i]) : i \in DOMAIN list } : Truthy(n) }

Requested(endpoint, shop) == [op |-> "request", endpoint |-> endpoint, shop |-> shop]
Answered(outcome) == [op |-> "answer", outcome |-> outcome]
Decoded(outcome) == [op |-> "decode", outcome |-> outcome]

Running == {i \in DOMAIN loads : loads[i].pc \notin {"done", "failed"}}

\* fetchAllStoresAndOrders() up to its first await
NewLoad == [pc |-> "getAllStores", stores |-> <<>>, at |-> 0, allOrders |-> <<>>, log |-> <<>>]

\* the effect on orders, searchTerm, productFilter and storeFilter
AdminFilterEffect(list, term, wanted, shop) ==
    \E F \in {adminFilterOrders(list, term, wanted, shop)} :
        /\ adminCrashed' = F.threw
        /\ adminFiltered' = IF F.threw THEN adminFiltered ELSE F.list

\* a loop that takes the stores last first
ProceedFromLast(i, L) ==
    IF L.at <= Len(L.stores)
    THEN /\ loads' = [loads EXCEPT ![i] =
                [L EXCEPT !.pc = "graphql",
                          !.log = Append(L.log,
                              Requested("graphql", L.stores[Len(L.stores) + 1 - L.at]))]]
         /\ UNCHANGED <<adminOrders, adminProducts, adminLoading, adminFiltered, adminCrashed>>
    ELSE /\ \E sorted \in SortNewest(L.allOrders) :
            /\ adminOrders' = sorted
            /\ adminProducts' = Sorted(AdminProductNames(sorted))
            /\ AdminFilterEffect(sorted, adminSearch, adminProduct, storeFilter)
         /\ adminLoading' = FALSE
         /\ loads' = [loads EXCEPT ![i] = [L EXCEPT !.pc = "done"]]

\* load i, now L, goes on to the store L.at of its list, or past the loop
\* to the sort, setOrders, setProducts and finally
Proceed(i, L) ==
    IF L.at <= Len(L.stores)
    THEN /\ loads' = [loads EXCEPT ![i] =
                [L EXCEPT !.pc = "graphql",
                          !.log = Append(L.log, Requested("graphql", L.stores[L.at]))]]
         /\ UNCHANGED <<adminOrders, adminProducts, adminLoading, adminFiltered, adminCrashed>>
    ELSE /\ \E sorted \in SortNewest(L.allOrders) :
            /\ adminOrders' = sorted
            /\ adminProducts' = Sorted(AdminProductNames(sorted))
            /\ AdminFilterEffect(sorted, adminSearch, adminProduct, storeFilter)
         /\ adminLoading' = FALSE
         /\ loads' = [loads EXCEPT ![i] = [L EXCEPT !.pc = "done"]]

\* a loop in which a store that failed empties what was collected
NextStoreDropsCollected(i, event, collected) ==
    Proceed(i, [loads[i] EXCEPT !.at = loads[i].at + 1,
                                !.allOrders = IF event = Decoded("ok") THEN collected ELSE <<>>,
                                !.log = Append(loads[i].log, event)])

\* load i leaves the store it is at, with what it has collected
NextStore(i, event, collected) ==
    Proceed(i, [loads[i] EXCEPT !.at = loads[i].at + 1,
                                !.allOrders = collected,
                                !.log = Append(loads[i].log, event)])

\* a call that has returned: its locals are gone, how it ended is kept
Returned(L) == [L EXCEPT !.stores = <<>>, !.at = 0, !.allOrders = <<>>, !.log = <<>>]

\* the Refresh button, rendered when the page is not loading
StartLoad ==
    /\ ~adminCrashed
    /\ ~adminLoading
    /\ Len(loads) < MaxLoads
    /\ loads' = Append([i \in DOMAIN loads |-> Returned(loads[i])], NewLoad)
    /\ adminLoading' = TRUE
    /\ UNCHANGED <<adminOrders, adminStores, adminProducts, adminToasts, adminFiltered, adminCrashed,
                 adminSearch, adminProduct, storeFilter, otherThanAdmin>>

\* await TokenManager.getAllStores() resolves or throws
GetAllStores ==
    /\ ~adminCrashed
    /\ \E i \in Running :
        /\ loads[i].pc = "getAllStores"
        /\ \/ \E list \in StoreLists :
                /\ adminStores' = list
                /\ Proceed(i, [loads[i] EXCEPT !.stores = list, !.at = 1])
                /\ UNCHANGED adminToasts
           \/ /\ adminToasts' = adminToasts + 1
              /\ adminLoading' = FALSE
              /\ loads' = [loads EXCEPT ![i].pc = "failed"]
              /\ UNCHANGED <<adminOrders, adminStores, adminProducts,
                             adminFiltered, adminCrashed>>
    /\ UNCHANGED <<adminSearch, adminProduct, storeFilter, otherThanAdmin>>

\* load i asks the REST endpoint for the store it is at
AskRest(i, outcome) ==
    /\ loads' = [loads EXCEPT ![i].pc = "rest",
            ![i].log = @ \o <<Answered(outcome),
                              Requested("rest", loads[i].stores[loads[i].at])>>]
    /\ UNCHANGED <<adminOrders, adminProducts, adminLoading, adminFiltered, adminCrashed>>

\* load i goes on to decode the ok response it has
AskBody(i, outcome) ==
    /\ loads' = [loads EXCEPT ![i].pc = "json", ![i].log = Append(@, Answered(outcome))]
    /\ UNCHANGED <<adminOrders, adminProducts, adminLoading, adminFiltered, adminCrashed>>

\* a load that falls back to REST after a thrown GraphQL request too
OnGraphqlRestAfterThrow(i, outcome) ==
    IF outcome = "ok" THEN AskBody(i, outcome) ELSE AskRest(i, outcome)

\* the branches after the GraphQL request of load i
OnGraphql(i, outcome) ==
    IF outcome = "ok" THEN AskBody(i, outcome)
    ELSE IF outcome = "failed" THEN AskRest(i, outcome)
    ELSE NextStore(i, Answered(outcome), loads[i].allOrders)

\* await fetch of the GraphQL endpoint returns a response or throws
GraphqlAnswers ==
    /\ ~adminCrashed
    /\ \E i \in Running :
        /\ loads[i].pc = "graphql"
        /\ \E outcome \in {"ok", "failed", "throw"} : OnGraphql(i, outcome)
    /\ UNCHANGED <<adminStores, adminToasts, adminSearch, adminProduct, storeFilter,
                   otherThanAdmin>>

\* await fetch of the REST endpoint returns a response or throws
RestAnswers ==
    /\ ~adminCrashed
    /\ \E i \in Running :
        /\ loads[i].pc = "rest"
        /\ \E outcome \in {"ok", "failed", "throw"} :
            IF outcome = "ok" THEN AskBody(i, outcome)
            ELSE NextStore(i, Answered(outcome), loads[i].allOrders)
    /\ UNCHANGED <<adminStores, adminToasts, adminSearch, adminProduct, storeFilter,
                   otherThanAdmin>>

\* the endpoint whose response load i is decoding
Decoding(i) ==
    LET requests == SelectSeq(loads[i].log, LAMBDA e : e.op = "request")
    IN  requests[Len(requests)].endpoint

\* await response.json() of an ok response gives the body or throws
AdminDecodes ==
    /\ ~adminCrashed
    /\ \E i \in Running :
        /\ loads[i].pc = "json"
        /\ \/ NextStore(i, Decoded("ok"),
                  loads[i].allOrders \o
                  StoreOrders(Payload(Decoding(i), loads[i].stores[loads[i].at]),
                              loads[i].stores[loads[i].at]))
           \/ NextStore(i, Decoded("throw"), loads[i].allOrders)
    /\ UNCHANGED <<adminStores, adminToasts, adminSearch, adminProduct, storeFilter,
                   otherThanAdmin>>

\* the search box, rendered when the page is not loading
AdminSetSearchTerm ==
    /\ ~adminCrashed
    /\ ~adminLoading
    /\ \E term \in SearchTerms \ {adminSearch} :
        /\ adminSearch' = term
        /\ AdminFilterEffect(adminOrders, term, adminProduct, storeFilter)
    /\ UNCHANGED <<adminOrders, adminStores, adminProducts, adminLoading, adminToasts, loads,
                   adminProduct, storeFilter, otherThanAdmin>>

\* the product selector, whose items are "all" and the products
AdminSetProductFilter ==
    /\ ~adminCrashed
    /\ ~adminLoading
    /\ \E wanted \in ({All} \cup {adminProducts[i] : i \in DOMAIN adminProducts})
                        \ {adminProduct} :
        /\ adminProduct' = wanted
        /\ AdminFilterEffect(adminOrders, adminSearch, wanted, storeFilter)
    /\ UNCHANGED <<adminOrders, adminStores, adminProducts, adminLoading, adminToasts, loads,
                   adminSearch, storeFilter, otherThanAdmin>>

\* the store selector, whose items are "all" and the stores
SetStoreFilter ==
    /\ ~adminCrashed
    /\ ~adminLoading
    /\ \E shop \in ({All} \cup {adminStores[i] : i \in DOMAIN adminStores}) \ {storeFilter} :
        /\ storeFilter' = shop
        /\ AdminFilterEffect(adminOrders, adminSearch, adminProduct, shop)
    /\ UNCHANGED <<adminOrders, adminStores, adminProducts, adminLoading, adminToasts, loads,
                   adminSearch, adminProduct, otherThanAdmin>>

\* the Clear Filters button
AdminClearFilters ==
    /\ ~adminCrashed
    /\ ~adminLoading
    /\ adminSearch' = NoTerm
    /\ adminProduct' = All
    /\ storeFilter' = All
    /\ AdminFilterEffect(adminOrders, NoTerm, All, All)
    /\ UNCHANGED <<adminOrders, adminStores, adminProducts, adminLoading, adminToasts, loads,
                   otherThanAdmin>>

\* the page mounts authenticated: the effect calls fetchAllStoresAndOrders
InitAdmin ==
    /\ HandlerIdle
    /\ NormIdle
    /\ PageIdle
    /\ adminOrders = <<>>
    /\ adminStores = <<>>
    /\ adminProducts = <<>>
    /\ adminLoading = TRUE
    /\ adminToasts = 0
    /\ loads = <<NewLoad>>
    /\ adminFiltered = <<>>
    /\ adminSearch = NoTerm
    /\ adminProduct = All
    /\ storeFilter = All
    /\ adminCrashed = FALSE

NextAdmin ==
    \/ StartLoad
    \/ GetAllStores
    \/ GraphqlAnswers
    \/ RestAnswers
    \/ AdminDecodes
    \/ AdminSetSearchTerm
    \/ AdminSetProductFilter
    \/ SetStoreFilter
    \/ AdminClearFilters

SpecAdmin == InitAdmin /\ [][NextAdmin]_vars

(***************************************************************************)
(* Either page, as the one a browser tab shows.                            *)
(***************************************************************************)
InitPages == InitPage \/ InitAdmin
NextPages == NextPage \/ NextAdmin
SpecPages == InitPages /\ [][NextPages]_vars
(***************************************************************************)
(* Properties of the GET handler.                                          *)
(***************************************************************************)
Done(c) == pc[c] = "done"
Syncs(c) == {i \in DOMAIN trace[c] : trace[c][i].op = "sync"}
Queries(c) == {i \in DOMAIN trace[c] : trace[c][i].op = "query"}
EmptyResult(r) == r.kind = "data" /\ r.rows = <<>>
Rows(r) == r.kind = "data" /\ r.rows # <<>>

\* C1: a call of the handler sends at most one sync request, whatever the sync
\* flag, the owner resolution, the store and the sync outcome are; a forced
\* sync followed by an empty query result is not followed by a second sync.
C1_AtMostOneSync ==
    \A c \in Calls : Cardinality(Syncs(c)) <= 1

\* a call that was forced to sync, found no rows afterwards and has answered
C1_Witness ==
    /\ Done("call")
    /\ ForceSync(request["call"])
    /\ Cardinality(Syncs("call")) = 1
    /\ EmptyResult(supplierOrders["call"])
    /\ response["call"] = <<OrdersResponse(<<>>)>>

\* C2: when the owner resolves, force-sync is not requested and the order
\* query returns no row, the call makes exactly one sync attempt, and when the
\* owner still has no row after it (the re-query is empty, or the sync failed
\* and nothing is re-read) the response is { orders: [] } with status 200.
C2_OneImplicitSyncThenEmpty ==
    \A c \in Calls :
        (~ForceSync(request[c]) /\ EmptyResult(supplierOrders[c])) =>
            /\ pc[c] \in {"autoSync", "requery", "done"}
            /\ (pc[c] = "autoSync") => Syncs(c) = {}
            /\ (pc[c] # "autoSync") => Cardinality(Syncs(c)) = 1
            /\ (Done(c) /\ (freshOrders[c] = Pending \/ EmptyResult(freshOrders[c]))) =>
                   response[c] = <<OrdersResponse(<<>>)>>

\* an implicit sync that succeeded and a re-query that still found no row
C2_Witness ==
    /\ Done("call")
    /\ request["call"].sync = Null
    /\ EmptyResult(supplierOrders["call"])
    /\ EmptyResult(freshOrders["call"])
    /\ trace["call"][2] = SyncEvent([kind |-> "ok"])
    /\ response["call"] = <<OrdersResponse(<<>>)>>

\* C3: when the first query is empty, force-sync was not requested, the
\* implicit sync answered 2xx and the re-query for the same owner returns
\* rows, the response is 200 with the normalised re-query rows and synced.
C3_FreshlySynced ==
    \A c \in Calls :
        (/\ Done(c)
         /\ ~ForceSync(request[c])
         /\ EmptyResult(supplierOrders[c])
         /\ Rows(freshOrders[c])) =>
            /\ trace[c] = <<QueryEvent([kind |-> "data"], supplierId[c]),
                            SyncEvent([kind |-> "ok"]),
                            QueryEvent([kind |-> "data"], supplierId[c])>>
            /\ response[c] =
                   <<[status |-> 200,
                      body |-> [orders |-> transformSupplierOrdersForResponse(freshOrders[c].rows),
                                synced |-> TRUE]]>>

\* the sync brought two orders of the owner, parsed from their stored text
C3_Witness ==
    /\ Done("call")
    /\ EmptyResult(supplierOrders["call"])
    /\ Rows(freshOrders["call"])
    /\ Len(response["call"][1].body.orders) = 2
    /\ \E i \in 1..2 : response["call"][1].body.orders[i].amount = Num(1999, 2)

\* what the order query alone makes the response
AnswerOf(r) ==
    IF r.kind = "data" THEN OrdersResponse(transformSupplierOrdersForResponse(r.rows))
    ELSE ErrorResponse("Failed to fetch supplier orders", 500)

\* after a failed sync: a forced one leaves the handler at the order query
\* with nothing answered, an implicit one ends in 200 { orders: [] }
SyncFailureNotAnError ==
    \A c \in Calls :
        (Syncs(c) # {} /\ trace[c][Len(trace[c])].op = "sync"
                       /\ trace[c][Len(trace[c])].outcome # "ok") =>
            IF ForceSync(request[c])
            THEN pc[c] = "query" /\ response[c] = <<>>
            ELSE Done(c) /\ response[c] = <<OrdersResponse(<<>>)>>

\* a call that was forced to sync made one order query after it, and its
\* response is the one of that query
QueryDecidesAfterForcedSync ==
    \A c \in Calls :
        (Done(c) /\ ForceSync(request[c]) /\ Syncs(c) # {}) =>
            /\ Len(trace[c]) = 2
            /\ trace[c][2].op = "query"
            /\ response[c] = <<AnswerOf(supplierOrders[c])>>

\* C4: a failed sync (non-2xx, or a throw of the request or of its decoding)
\* is never turned into an error response: after a failed forced sync the
\* order query is still made and alone decides the response, and after a
\* failed implicit sync the response is { orders: [] } with status 200.
C4_SyncFailureNotAnError == SyncFailureNotAnError /\ QueryDecidesAfterForcedSync

\* a forced sync threw and the owner's orders are returned all the same
C4_Witness ==
    /\ Done("call")
    /\ Rows(supplierOrders["call"])
    /\ trace["call"][1] = SyncEvent([kind |-> "throw"])
    /\ response["call"][1].status = 200
Resolved(c) == supplierId[c] # Undefined
SyncFirst(c) == trace[c] # <<>> /\ trace[c][1].op = "sync"
NoIdentity(c) == user[c].kind \in {"none", "error"}
NoOwnerRecord(c) == supplierData[c].kind = "none"
Status(c) == response[c][1].status

\* C5, as stated: when the sync flag is "true" and the owner resolves, the
\* sync is sent whatever rows the owner has, and before any order query.
C5_ForcedSyncAlwaysSent ==
    \A c \in Calls :
        (Done(c) /\ ForceSync(request[c]) /\ Resolved(c)) => SyncFirst(c)

\* C5, amended: when the sync flag is "true", the owner resolves and the
\* product-mappings read that follows does not throw, the sync is sent
\* whatever rows the owner has and its outcome is observed before the first
\* order query; a throw of that read ends the call with 500, with no sync and
\* no order query.
C5_ForcedSyncBeforeQuery ==
    \A c \in Calls :
        (ForceSync(request[c]) /\ Resolved(c)) =>
            /\ (pc[c] = "mappings") => trace[c] = <<>>
            /\ (pc[c] = "forceSync") => trace[c] = <<>>
            /\ (pc[c] = "query") => Len(trace[c]) = 1 /\ SyncFirst(c)
            /\ \A i \in Queries(c) : i > 1 /\ SyncFirst(c)
            /\ (Done(c) /\ allMappings[c].kind # "throw") => SyncFirst(c)
            /\ (Done(c) /\ allMappings[c].kind = "throw") =>
                   /\ trace[c] = <<>>
                   /\ response[c] = <<ErrorResponse("Failed to fetch supplier orders", 500)>>

\* the forced sync has been sent while the owner has rows, no query yet
C5_Witness ==
    /\ pc["call"] = "query"
    /\ ForceSync(request["call"])
    /\ Len(trace["call"]) = 1 /\ trace["call"][1].op = "sync"
    /\ \E row \in store : row.supplier_id = supplierId["call"]

\* C6: whenever an order query fails at the storage layer, the first one or
\* the re-query after an implicit sync, the call answers { error } with
\* status 500 and never 200.
C6_QueryFailureIs500 ==
    \A c \in Calls :
        (Done(c) /\ \E i \in Queries(c) : trace[c][i].outcome = "error") =>
            response[c] = <<ErrorResponse("Failed to fetch supplier orders", 500)>>

\* C7: when the identity is present and its owner record is found, the owner
\* is the record's username, and two calls that differ only in supplierName
\* and meet the same store send the same requests and get the same response.
C7_ParameterIgnored ==
    /\ \A c \in Calls :
           (supplierData[c].kind = "found") => supplierId[c] = supplierData[c].username
    /\ (/\ Done("call") /\ Done("twin")
        /\ supplierData["call"].kind = "found"
        /\ supplierData["twin"] = supplierData["call"]) =>
           /\ trace["twin"] = trace["call"]
           /\ response["twin"] = response["call"]

\* two calls naming different owners both get the orders of the identity's
C7_Witness ==
    /\ Done("call") /\ Done("twin")
    /\ supplierData["call"].kind = "found"
    /\ supplierData["twin"] = supplierData["call"]
    /\ Truthy(request["call"].supplierName)
    /\ Truthy(request["twin"].supplierName)
    /\ request["call"].supplierName # request["twin"].supplierName
    /\ request["twin"].supplierName # supplierData["call"].username
    /\ Rows(supplierOrders["twin"])

\* C8, as stated: with no identity, or with an identity whose owner lookup
\* fails, a supplied supplierName parameter is the resolved owner.
C8_FallbackToParameter ==
    \A c \in Calls :
        ((NoIdentity(c) \/ NoOwnerRecord(c)) /\ request[c].supplierName # Null) =>
            /\ supplierId[c] = request[c].supplierName
            /\ Done(c) => Status(c) \notin {401, 404}

\* C8, amended: the same for a supplierName parameter that is not empty.
C8_FallbackToNonEmptyParameter ==
    \A c \in Calls :
        ((NoIdentity(c) \/ NoOwnerRecord(c)) /\ Truthy(request[c].supplierName)) =>
            /\ supplierId[c] = request[c].supplierName
            /\ Done(c) => Status(c) \notin {401, 404}

\* the owner lookup failed and the orders of the named owner came back
C8_Witness ==
    /\ Done("call")
    /\ NoOwnerRecord("call")
    /\ request["call"].supplierName = Str(<<"a">>)
    /\ Rows(supplierOrders["call"])
    /\ Status("call") = 200

\* C9 for the calls in absent, those taken to have no owner-name parameter:
\* such a call fails with no sync and no order query, 401 with no identity and
\* 404 with an identity that has no owner record, and 401 and 404 come from
\* nothing else.
NoRetry(c) == trace[c] = <<>> /\ Len(response[c]) = 1
C9_Cases(absent) ==
    \A c \in Calls :
        Done(c) =>
            /\ (NoIdentity(c) /\ c \in absent) =>
                   Status(c) = 401 /\ NoRetry(c) /\ supplierData[c] = Pending
            /\ (NoOwnerRecord(c) /\ c \in absent) => Status(c) = 404 /\ NoRetry(c)
            /\ (Status(c) = 401) => NoIdentity(c) /\ c \in absent
            /\ (Status(c) = 404) => NoOwnerRecord(c) /\ c \in absent

\* C9, as stated: 401 and 404 are for calls with no supplierName parameter.
C9_OnlyWithoutParameter ==
    C9_Cases({c \in Calls : request[c].supplierName = Null})

\* C9, amended: 401 and 404 are for calls whose supplierName parameter is
\* absent or empty.
C9_OnlyWithoutUsableParameter ==
    C9_Cases({c \in Calls : ~Truthy(request[c].supplierName)})

\* an identity with no owner record and an empty parameter: 404
C9_Witness ==
    /\ Done("call")
    /\ NoOwnerRecord("call")
    /\ request["call"].supplierName = Str(<<>>)
    /\ response["call"] = <<ErrorResponse("Supplier not found for email", 404)>>

WellFormed(r) ==
    \/ /\ r.status = 200
       /\ DOMAIN r.body \in {{"orders"}, {"orders", "synced"}}
       /\ DOMAIN r.body.orders = 1..Len(r.body.orders)
       /\ ("synced" \in DOMAIN r.body) => r.body.synced = TRUE
    \/ /\ r.status \in {401, 404, 500}
       /\ DOMAIN r.body = {"error"}

\* C10: every call ends with exactly one response, 200 with an orders array
\* (and possibly synced: true) or an error message with 401, 404 or 500; a
\* throw of the identity lookup, the store or the sync request is answered,
\* and a call that has not answered can always go on.
C10_ExactlyOneResponse ==
    \A c \in Active :
        /\ Len(response[c]) <= 1
        /\ Done(c) <=> Len(response[c]) = 1
        /\ \A i \in DOMAIN response[c] : WellFormed(response[c][i])
        /\ Done(c) \/ ENABLED (GetUser \/ Lookup \/ Mappings \/ ForcedSync
                                 \/ Query \/ AutoSync \/ Requery)

\* the order query threw after a sync and the call answered 500
C10_Witness ==
    /\ Done("call")
    /\ supplierOrders["call"].kind = "throw"
    /\ Syncs("call") # {}
    /\ response["call"] = <<ErrorResponse("Failed to fetch supplier orders", 500)>>

(***************************************************************************)
(* The normaliser's claims, over SpecNorm.                                  *)
(***************************************************************************)
Missing(v) == v \in {Null, Undefined}
Unparsable(v) == v.t = "string" /\ ~JSONParse(v.s).ok
Transformed == passes > 0

\* C11: an order whose shipping (billing) address is missing or is text that
\* cannot be parsed is returned with a null shippingAddress (billingAddress);
\* the normaliser returns, and returns every order of the batch
C11_BadAddressIsNull ==
    Transformed =>
        /\ Len(result) = Len(batch)
        /\ \A i \in DOMAIN batch :
            LET shipping == Get(batch[i], "shipping_address")
                billing == Get(batch[i], "billing_address")
            IN  /\ Missing(shipping) \/ Unparsable(shipping)
                    => result[i].shippingAddress = Null
                /\ Missing(billing) \/ Unparsable(billing)
                    => result[i].billingAddress = Null
                /\ result[i].id = Get(batch[i], "shopify_order_id")

C11_Witness ==
    /\ passes = 1
    /\ Len(batch) = 2
    /\ Unparsable(batch[1].shipping_address)
    /\ result[1].shippingAddress = Null
    /\ Missing(batch[2].billing_address)
    /\ result[2].billingAddress = Null
    /\ result[2].shippingAddress = Obj([c |-> Str(<<"P">>)])
    /\ result[2].id = Str(<<"2">>)

\* text without a digit: no number can be read from it
NonNumeric(v) == v.t = "string" /\ \A i \in DOMAIN v.s : ~IsDigit(v.s[i])
IsNumber(v) == v.t = "number"
Zero == Num(0, 0)
ItemsOf(order) == Get(order, "supplier_order_items")
HasItems(order) == ItemsOf(order).t = "array"

\* C12: the amount of a returned order and the price of each of its line
\* items are numbers, and are 0 when the stored total or price is absent or
\* is text that is no number
C12_AmountAndPriceNumeric ==
    passes = 1 =>
        \A i \in DOMAIN batch :
            /\ IsNumber(result[i].amount)
            /\ Missing(batch[i].total_amount) \/ NonNumeric(batch[i].total_amount)
                => result[i].amount = Zero
            /\ HasItems(batch[i]) =>
                \A j \in DOMAIN ItemsOf(batch[i]).a :
                    LET price == ItemsOf(batch[i]).a[j].price
                        item == result[i].supplierProducts.a[j]
                    IN  /\ IsNumber(item.price)
                        /\ Missing(price) \/ NonNumeric(price) => item.price = Zero

\* C13: a line item stored without a quantity or without a price is returned
\* with quantity 0 or price 0, its other fields as stored
C13_MissingQuantityOrPriceIsZero ==
    passes = 1 =>
        \A i \in DOMAIN batch :
            HasItems(batch[i]) =>
                \A j \in DOMAIN ItemsOf(batch[i]).a :
                    LET raw == ItemsOf(batch[i]).a[j]
                        item == result[i].supplierProducts.a[j]
                    IN  /\ Missing(raw.quantity) => item.quantity = Zero
                        /\ Missing(raw.price) => item.price = Zero
                        /\ item.id = raw.shopify_line_item_id
                        /\ item.name = raw.product_name
                        /\ item.sku = raw.sku
                        /\ item.productId = raw.supplier_product_id
                        /\ item.variantId = raw.variant_id
                        /\ item.shopifyProductId = raw.shopify_product_id

Empty(v) == Missing(v) \/ v = Str(<<>>)

\* C14: an order stored without a customer name or email is returned with
\* the placeholder "Guest" or "No email", so that no returned order has an
\* empty customer name or email
C14_PlaceholdersForAbsentCustomer ==
    passes = 1 =>
        \A i \in DOMAIN batch :
            /\ Empty(batch[i].customer_name) => result[i].customerName = Guest
            /\ Empty(batch[i].customer_email) => result[i].customerEmail = NoEmail
            /\ ~Empty(result[i].customerName)
            /\ ~Empty(result[i].customerEmail)

\* C15: the normaliser applied to orders it returned gives them back
\* unchanged
C15_Idempotent == passes > 1 => result = batch

ItemIds(items) == { items.a[j].id : j \in DOMAIN items.a }

\* C16: the normaliser returns one order per row, in the order of the rows;
\* the line items of the i-th order are the images of the i-th row's items,
\* in their order (none when the row has none), and of no other row's
C16_OneOrderPerRowWithItsItems ==
    passes = 1 =>
        /\ Len(result) = Len(batch)
        /\ \A i \in DOMAIN batch :
            /\ result[i].id = batch[i].shopify_order_id
            /\ result[i].supplierProducts.t = "array"
            /\ IF HasItems(batch[i])
               THEN /\ Len(result[i].supplierProducts.a) = Len(ItemsOf(batch[i]).a)
                    /\ \A j \in DOMAIN ItemsOf(batch[i]).a :
                        result[i].supplierProducts.a[j].id
                            = ItemsOf(batch[i]).a[j].shopify_line_item_id
               ELSE result[i].supplierProducts.a = <<>>
            /\ \A k \in DOMAIN batch :
                k # i /\ HasItems(batch[k]) =>
                    ItemIds(result[i].supplierProducts)
                        \cap ItemIds(ItemsOf(batch[k])) = {}

\* a row with two items before a row with none
C16_Witness ==
    /\ passes = 1
    /\ Len(batch) = 2
    /\ HasItems(batch[1])
    /\ Len(ItemsOf(batch[1]).a) = 2
    /\ ~HasItems(batch[2])
    /\ result[1].supplierProducts.a[1].id = Str(<<"1", "1">>)
    /\ result[1].supplierProducts.a[2].id = Str(<<"1", "2">>)
    /\ result[2].supplierProducts = Arr(<<>>)

\* an address column normalised by itself
Alone(a) == IF ParseAddress(a).ok THEN ParseAddress(a).v ELSE Null

\* C19: the two addresses of an order are normalised independently: text
\* that cannot be parsed in one leaves the other as it would be alone
C19_AddressesIndependent ==
    passes = 1 =>
        \A i \in DOMAIN batch :
            /\ result[i].shippingAddress = Alone(batch[i].shipping_address)
            /\ result[i].billingAddress = Alone(batch[i].billing_address)

(***************************************************************************)
(* Further claims about the GET handler, over Spec.                         *)
(***************************************************************************)
\* the orders of a response, none when it is an error
Listed(r) == IF "orders" \in DOMAIN r.body THEN r.body.orders ELSE <<>>
NewestFirst(list) ==
    \A i, j \in DOMAIN list : i < j => DateValue(list[i]) >= DateValue(list[j])

\* C17: the orders of every successful response, from the first query or
\* from the re-query after a sync, are in non-increasing order of order date
C17_NewestFirst ==
    \A c \in Calls : \A i \in DOMAIN response[c] :
        response[c][i].status = 200 => NewestFirst(Listed(response[c][i]))

\* orders of two dates returned from the first query
C17_Witness ==
    /\ Done("call")
    /\ Rows(supplierOrders["call"])
    /\ Len(response["call"]) = 1
    /\ Len(Listed(response["call"][1])) = 3
    /\ DateValue(Listed(response["call"][1])[1]) > DateValue(Listed(response["call"][1])[3])

\* orders of two dates returned from the re-query
C17_WitnessRequery ==
    /\ Done("call")
    /\ "synced" \in DOMAIN response["call"][1].body
    /\ Len(Listed(response["call"][1])) = 3
    /\ DateValue(Listed(response["call"][1])[1]) > DateValue(Listed(response["call"][1])[3])

Synced(r) == "synced" \in DOMAIN r.body
\* the sync sent after the first query answered 2xx
ImplicitSyncOk(c) ==
    \E i \in Syncs(c) : i > 1 /\ trace[c][i].outcome = "ok" /\ 1 \in Queries(c)

\* C20: a response carries synced exactly when force-sync was not requested,
\* the first query was empty, the implicit sync answered 2xx and the re-query
\* returned rows; a forced sync never sets it, and a synced response never
\* has an empty list of orders
C20_SyncedExactly ==
    \A c \in Calls :
        Done(c) /\ Len(response[c]) = 1 =>
            /\ Synced(response[c][1]) <=>
                 /\ ~ForceSync(request[c])
                 /\ EmptyResult(supplierOrders[c])
                 /\ ImplicitSyncOk(c)
                 /\ Rows(freshOrders[c])
            /\ ForceSync(request[c]) => ~Synced(response[c][1])
            /\ Synced(response[c][1]) =>
                 /\ response[c][1].status = 200
                 /\ Listed(response[c][1]) # <<>>

\* a synced response
C20_Witness ==
    /\ Done("call")
    /\ Synced(response["call"][1])
    /\ ImplicitSyncOk("call")
    /\ Listed(response["call"][1]) # <<>>

\* a forced sync that answered 2xx, rows, and no flag
C20_WitnessForced ==
    /\ Done("call")
    /\ ForceSync(request["call"])
    /\ Rows(supplierOrders["call"])
    /\ trace["call"][1] = SyncEvent([kind |-> "ok"])
    /\ ~Synced(response["call"][1])
    /\ Listed(response["call"][1]) # <<>>

(***************************************************************************)
(* The store orders page's claims, over SpecPage.                           *)
(***************************************************************************)
\* what a successful fetchOrders call for store s sets the orders to
ResultsFor(s) == { NormalizeOrders(Payload(Endpoints[e], s)) : e \in DOMAIN Endpoints }

\* C18: once no fetchOrders call is in flight, the orders shown are those
\* returned for the selected store; a late response for a store selected
\* earlier does not overwrite them. The last call started is always one for
\* the selected store and clears the error state, so with no call in flight
\* and no error that call has succeeded and its orders are the ones to show.
C18_ShowsSelectedStore ==
    InFlight = {} /\ error = Null => orders \in ResultsFor(selectedStore)

(***************************************************************************)
(* Ownership and frame of the GET handler, over Spec.                       *)
(***************************************************************************)
\* C21: every order of a successful response is a stored order whose
\* supplier_id is the owner resolved for the call, from the first query or
\* from the re-query after a sync
C21_OnlyOwnOrders ==
    \A c \in Calls : \A i \in DOMAIN response[c] :
        response[c][i].status = 200 =>
            \A k \in DOMAIN Listed(response[c][i]) :
                \E row \in store :
                    /\ row.shopify_order_id = Listed(response[c][i])[k].id
                    /\ row.supplier_id = supplierId[c]

\* the store holds orders of two owners and the call returned those of one
C21_Witness ==
    /\ Done("call")
    /\ Rows(supplierOrders["call"])
    /\ Len(Listed(response["call"][1])) = 1
    /\ supplierId["call"] = Str(<<"b">>)
    /\ \E row \in store : row.supplier_id = Str(<<"a">>)

\* the same from the re-query
C21_WitnessRequery ==
    /\ Done("call")
    /\ Synced(response["call"][1])
    /\ Len(Listed(response["call"][1])) < Cardinality(store)

\* a call that did not ask for a sync and whose first query returned rows
\* is over, with that one query and no sync
AnsweredFromStore ==
    \A c \in Calls :
        ~ForceSync(request[c]) /\ Rows(supplierOrders[c]) =>
            /\ Done(c)
            /\ Syncs(c) = {}
            /\ Cardinality(Queries(c)) = 1
            /\ response[c] = <<AnswerOf(supplierOrders[c])>>

\* the store changes only in a step in which a call sends a sync request
StoreChangeIsSync ==
    store' # store =>
        \E c \in Calls :
            /\ Len(trace'[c]) = Len(trace[c]) + 1
            /\ trace'[c][Len(trace'[c])].op = "sync"

\* C22: without force-sync and with rows from the first query, the call
\* sends no sync and makes no second query, and so leaves the store as it is
C22_NoSyncOnRows == []AnsweredFromStore /\ [][StoreChangeIsSync]_vars

\* such a call, answered from a store of three rows
C22_Witness ==
    /\ Done("call")
    /\ ~ForceSync(request["call"])
    /\ Rows(supplierOrders["call"])
    /\ trace["call"] = <<QueryEvent([kind |-> "data"], supplierId["call"])>>
    /\ Cardinality(store) = 3

(***************************************************************************)
(* The administrative load's claims, over SpecAdmin.                        *)
(***************************************************************************)
\* the requests of a log not yet answered after its first k events
Unanswered(log, k) ==
    Cardinality({m \in 1..k : log[m].op = "request"})
        - Cardinality({m \in 1..k : log[m].op = "answer"})
\* the place of a shop in a list of connected stores
PlaceOf(shop, stores) == CHOOSE a \in DOMAIN stores : stores[a] = shop

\* C23: a load queries the stores one after another in the order of the
\* connected-store list: it never has two order requests in flight, and it
\* issues the request for a store only after the requests for every
\* earlier store have been made and have completed or failed
C23_OneStoreAtATime ==
    \A i \in DOMAIN loads :
        LET log == loads[i].log
            stores == loads[i].stores
        IN  /\ Unanswered(log, Len(log)) \in {0, 1}
            /\ \A k \in DOMAIN log :
                log[k].op = "request" =>
                    /\ Unanswered(log, k - 1) = 0
                    /\ log[k].shop \in {stores[a] : a \in DOMAIN stores}
                    /\ \A b \in 1..(PlaceOf(log[k].shop, stores) - 1) :
                        \E m \in 1..(k - 1) :
                            log[m].op = "request" /\ log[m].shop = stores[b]
                    /\ \A m \in 1..(k - 1) :
                        log[m].op = "request" =>
                            PlaceOf(log[m].shop, stores) <= PlaceOf(log[k].shop, stores)

\* a load of stores y and x that asked both endpoints for y, then x
C23_Witness ==
    /\ loads[1].pc = "done"
    /\ loads[1].stores = <<Str(<<"y">>), Str(<<"x">>)>>
    /\ SelectSeq(loads[1].log, LAMBDA e : e.op = "request")
         = <<Requested("graphql", Str(<<"y">>)), Requested("rest", Str(<<"y">>)),
             Requested("graphql", Str(<<"x">>))>>

\* the events of a log that are about the store at place a of the list
\* (each store of a list is asked about in one stretch of the log)
RECURSIVE StretchEnd(_, _)
StretchEnd(log, k) ==
    IF k <= Len(log) /\ log[k].op # "request" THEN StretchEnd(log, k + 1)
    ELSE IF k <= Len(log) /\ log[k].endpoint = "rest" THEN StretchEnd(log, k + 1)
    ELSE k
\* where the graphql request for shop is in the log, 0 when there is none
AskedAt(log, shop) ==
    IF \E k \in DOMAIN log : log[k] = Requested("graphql", shop)
    THEN CHOOSE k \in DOMAIN log : log[k] = Requested("graphql", shop)
    ELSE 0
\* the body decoded for shop, if its stretch of the log ends with one
Obtained(log, shop) ==
    LET from == AskedAt(log, shop)
        to == StretchEnd(log, from + 1) - 1
        asked == IF log[to - 1].op = "request" THEN log[to - 1].endpoint
                 ELSE log[to - 2].endpoint
    IN  IF from > 0 /\ log[to] = Decoded("ok")
        THEN StoreOrders(Payload(asked, shop), shop)
        ELSE <<>>

RECURSIVE Collected(_, _, _)
\* the orders of the first n stores that were obtained, in list order
Collected(log, stores, n) ==
    IF n = 0 THEN <<>>
    ELSE Collected(log, stores, n - 1) \o Obtained(log, stores[n])

\* C24: a store that fails (both endpoints answer not ok, or a request or
\* the decoding throws) adds no orders; every later store is still asked,
\* the orders of earlier stores are kept, and no error toast is raised
C24_StoreFailureIsLocal ==
    /\ adminToasts = Cardinality({i \in DOMAIN loads : loads[i].pc = "failed"})
    /\ \A i \in DOMAIN loads :
        LET L == loads[i]
        IN  /\ L.pc = "failed" => L.log = <<>>
            /\ L.pc = "done" =>
                /\ \A a \in DOMAIN L.stores : AskedAt(L.log, L.stores[a]) > 0
                /\ L.allOrders = Collected(L.log, L.stores, Len(L.stores))
    /\ loads[Len(loads)].pc = "done" =>
            adminOrders \in SortNewest(loads[Len(loads)].allOrders)

\* store x obtained, then the request for store y threw: x's order is shown
C24_Witness ==
    /\ loads[1].pc = "done"
    /\ loads[1].stores = <<Str(<<"x">>), Str(<<"y">>)>>
    /\ loads[1].log = <<Requested("graphql", Str(<<"x">>)), Answered("ok"), Decoded("ok"),
                        Requested("graphql", Str(<<"y">>)), Answered("throw")>>
    /\ Len(adminOrders) = 1
    /\ adminOrders[1].storeName = Str(<<"x">>)
    /\ adminToasts = 0

\* store x failed at both endpoints, store y was still asked and obtained
C24_WitnessLater ==
    /\ loads[1].pc = "done"
    /\ loads[1].log = <<Requested("graphql", Str(<<"x">>)), Answered("failed"),
                        Requested("rest", Str(<<"x">>)), Answered("failed"),
                        Requested("graphql", Str(<<"y">>)), Answered("ok"), Decoded("ok")>>
    /\ Len(adminOrders) = 1
    /\ adminOrders[1].storeName = Str(<<"y">>)
    /\ adminToasts = 0

\* the first request for each store is to the GraphQL endpoint, and a REST
\* request follows a GraphQL request for the same store that did not succeed
GraphqlFirst(log) ==
    \A k \in DOMAIN log :
        /\ /\ log[k].op = "request"
           /\ \A m \in 1..(k - 1) : log[m].op = "request" => log[m].shop # log[k].shop
           => log[k].endpoint = "graphql"
        /\ log[k].op = "request" /\ log[k].endpoint = "rest" =>
            /\ k > 2
            /\ log[k - 2] = Requested("graphql", log[k].shop)
            /\ log[k - 1] \in {Answered("failed"), Answered("throw")}
            /\ \A m \in 1..(k - 1) :
                log[m] = Requested("graphql", log[k].shop) =>
                    log[m + 1] # Answered("ok")

\* the REST request for the same store follows at once the answer at k
RestFollows(log, k) ==
    /\ k + 1 <= Len(log)
    /\ log[k + 1] = Requested("rest", log[k - 1].shop)

\* C25, as stated: for every store the GraphQL endpoint is asked first;
\* whenever that attempt fails (answers not ok, or throws) the REST endpoint
\* is asked for the same store, and never when it succeeded
C25_RestAfterEveryFailure ==
    \A i \in DOMAIN loads :
        LET log == loads[i].log
        IN  /\ GraphqlFirst(log)
            /\ \A k \in DOMAIN log :
                /\ k > 1
                /\ log[k - 1].op = "request"
                /\ log[k - 1].endpoint = "graphql"
                /\ log[k] \in {Answered("failed"), Answered("throw")}
                => RestFollows(log, k)

\* C25, amended: the REST endpoint is asked for the same store whenever the
\* GraphQL endpoint answers not ok, and never when it answered ok; when the
\* GraphQL request throws, the store is left with no REST request
C25_RestAfterNotOk ==
    \A i \in DOMAIN loads :
        LET log == loads[i].log
        IN  /\ GraphqlFirst(log)
            /\ \A k \in DOMAIN log :
                k > 1 /\ log[k - 1].op = "request" /\ log[k - 1].endpoint = "graphql" =>
                    /\ log[k] = Answered("failed") => RestFollows(log, k)
                    /\ log[k] = Answered("throw") =>
                        \A m \in DOMAIN log : log[m] # Requested("rest", log[k - 1].shop)
                    /\ log[k] = Answered("ok") =>
                        \A m \in DOMAIN log : log[m] # Requested("rest", log[k - 1].shop)

\* one load with a store of each kind: not ok then REST, and a throw
C25_Witness ==
    /\ loads[1].pc = "done"
    /\ loads[1].log = <<Requested("graphql", Str(<<"y">>)), Answered("failed"),
                        Requested("rest", Str(<<"y">>)), Answered("ok"), Decoded("ok"),
                        Requested("graphql", Str(<<"x">>)), Answered("throw")>>

(***************************************************************************)
(* The store orders page's claims on fetchOrders, over SpecPage.           *)
(***************************************************************************)
\* n answers that were not ok
NotOk(n) == [k \in 1..n |-> "failed"]
Last(list) == list[Len(list)]

\* a call asks the endpoints in their order, each one after the one before
\* answered not ok, and decodes the first ok answer
OneAfterAnother(F) ==
    /\ F.asked = SubSeq(Endpoints, 1, Len(F.asked))
    /\ F.pc = "fetch" => F.answers = NotOk(Len(F.asked) - 1)
    /\ F.pc = "json" => F.answers = Append(NotOk(Len(F.asked) - 1), "ok")
    /\ F.pc = "errorJson" => F.asked = Endpoints /\ F.answers = NotOk(3)
    /\ F.pc = "done" /\ F.answers # <<>> =>
            F.answers = NotOk(Len(F.asked) - 1) \o <<"ok", "body">>

\* the step in which a call takes its orders sets them from the body of the
\* endpoint that answered ok
TakenFromFirstOk ==
    \A i \in DOMAIN fetching :
        fetching[i].pc # "done" /\ fetching'[i].pc = "done" =>
            /\ Last(fetching[i].answers) = "ok"
            /\ orders' = NormalizeOrders(Payload(Last(fetching[i].asked), fetching[i].store))

\* a call ended in its catch block only with all three endpoints asked
EndedAfterAllThree(F) == F.pc = "failed" /\ F.answers # <<>> => F.asked = Endpoints

\* a call ended in its catch block after a throw, or after three answers
\* that were not ok
EndedAfterThrowOrAllThree(F) ==
    F.pc = "failed" /\ F.answers # <<>> =>
        \/ Last(F.answers) = "throw"
        \/ F.asked = Endpoints /\ F.answers = Append(NotOk(3), "body")

ErrorFromCatch == error # Null => \E i \in DOMAIN fetching : fetching[i].pc = "failed"

\* C26 as stated: unified, then GraphQL, then REST, each after the one
\* before failed; orders from the first that succeeds; the error state is
\* set only when all three have failed
C26_ErrorOnlyAfterAllThree ==
    /\ [](/\ ErrorFromCatch
          /\ \A i \in DOMAIN fetching :
                OneAfterAnother(fetching[i]) /\ EndedAfterAllThree(fetching[i]))
    /\ [][TakenFromFirstOk]_vars

\* C26, amended: unified, then GraphQL, then REST, each after the one before
\* answered not ok; orders from the first that answers ok; the error state
\* is set when all three answered not ok, and also as soon as a request or
\* the decoding of a body throws, with no later endpoint tried
C26_ErrorAfterAllThreeOrThrow ==
    /\ [](/\ ErrorFromCatch
          /\ \A i \in DOMAIN fetching :
                OneAfterAnother(fetching[i]) /\ EndedAfterThrowOrAllThree(fetching[i]))
    /\ [][TakenFromFirstOk]_vars

\* unified and GraphQL answered not ok, the orders come from REST
C26_Witness ==
    /\ fetching[1].pc = "done"
    /\ fetching[1].answers = <<"failed", "failed", "ok", "body">>
    /\ orders = NormalizeOrders(Payload("rest", Str(<<"x">>)))
    /\ error = Null

\* all three answered not ok
C26_WitnessAllFailed ==
    /\ fetching[1].pc = "failed"
    /\ fetching[1].answers = <<"failed", "failed", "failed", "body">>
    /\ error = AllFailed

\* the unified request threw: the error is set with one endpoint asked
C26_WitnessThrow ==
    /\ fetching[1].pc = "failed"
    /\ fetching[1].asked = <<"unified">>
    /\ fetching[1].answers = <<"throw">>
    /\ error = Thrown

\* the calls that end in their catch block, and those that take their
\* orders, in the step at hand
Failing == {i \in DOMAIN fetching : fetching[i].pc # "failed" /\ fetching'[i].pc = "failed"}
Succeeding == {i \in DOMAIN fetching : fetching[i].pc # "done" /\ fetching'[i].pc = "done"}

\* a call that ends in its catch block raises a toast, sets the error state
\* and leaves the orders as they are
FailureReported ==
    Failing # {} =>
        /\ toasts' = toasts + 1
        /\ error' # Null
        /\ orders' = orders

\* after a call has taken its orders the error state is null
SuccessClearsError == Succeeding # {} => error' = Null

\* the same for the administrative page, when the store list is not obtained
AdminFailureReported ==
    (\E i \in DOMAIN loads : loads[i].pc # "failed" /\ loads'[i].pc = "failed") =>
        /\ adminToasts' = adminToasts + 1
        /\ adminOrders' = adminOrders

\* the part of C27 on reporting a failure, on the store orders page
C27_FailureReported == [][FailureReported]_vars
\* and on the administrative page
C27_AdminFailureReported == [][AdminFailureReported]_vars

\* C27: a fetch that fails is reported by a toast and a non-null error state
\* and leaves the orders as they were; a later successful fetch clears the
\* error state
C27_ReportedThenCleared == [][FailureReported /\ SuccessClearsError]_vars

\* with no call in flight loading is false
LoadingFalseAtRest == InFlight = {} => ~loading

\* C29: loading is true while at least one fetchOrders call is in flight,
\* whatever the interleaving of selections and refreshes, and false once
\* the last call in flight has finished; so the Refresh button, disabled by
\* loading, is disabled as long as a call is running
C29_LoadingWhileInFlight == loading <=> InFlight # {}

(***************************************************************************)
(* The filters of both pages, over SpecPages.                              *)
(***************************************************************************)
\* the text v holds part, letter case aside
HoldsText(v, part) == v.t = "string" /\ includes(toLowerCase(v.s), toLowerCase(part.s))
\* the number of the order, as text, holds part
NumberHolds(v, part) ==
    \/ v.t = "string" /\ includes(v.s, part.s)
    \/ v.t = "number" /\ includes(NumberToString(v), part.s)

\* what each filter asks of an order when it is active
SearchOk(order, term) ==
    \/ term = NoTerm
    \/ \E f \in {"name", "customerName", "customerEmail"} : HoldsText(Get(order, f), term)
    \/ NumberHolds(Get(order, "orderNumber"), term)
ProductOk(order, wanted) ==
    \/ wanted = All
    \/ LET items == Get(order, "lineItems")
       IN  /\ items.t = "array"
           /\ \E j \in DOMAIN items.a : HoldsText(Get(items.a[j], "name"), wanted)
StoreOk(order, shop) == shop = All \/ Get(order, "storeName") = shop

\* the orders that satisfy every active filter, in the order of the list
Satisfying(list, term, wanted, shop) ==
    SelectSeq(list, LAMBDA o : SearchOk(o, term) /\ ProductOk(o, wanted) /\ StoreOk(o, shop))

C28_WitnessStore ==
    /\ Len(adminOrders) = 2
    /\ storeFilter = Str(<<"x">>)
    /\ Len(adminFiltered) = 1
    /\ adminFiltered[1].storeName = Str(<<"x">>)

\* a search on the administrative page met an order with no customer name
C28_WitnessThrew ==
    /\ adminCrashed
    /\ adminSearch = Str(<<"N">>)

====
